---- MODULE Spec2Model ----
(***************************************************************************)
(* Model of the learning-agent recommendation backend.                     *)
(*                                                                         *)
(*   Spec / SpecSeq : the query-line store and get_initial_response        *)
(*                    (QueryLineManager, PerplexityClient, orchestrator),  *)
(*                    with concurrent requests (Spec) or one request at a  *)
(*                    time (SpecSeq).                                      *)
(*   SpecCache      : the structured-call cache (OpenAICache) and the      *)
(*                    read / live call / write-back protocol its callers   *)
(*                    follow, with concurrent callers and store faults.    *)
(*   SpecRec        : RecommendationOrchestrator.get_recommendations: the  *)
(*                    moment gate and the search / filter / refine loop,   *)
(*                    with StrategyGenerator.record_attempt.               *)
(*   SpecStrategy   : StrategyGenerator.generate_strategy on its own.      *)
(*   SpecFilter     : ContentFilterer.filter_content, candidate by         *)
(*                    candidate.                                           *)
(*   SpecDiscovery  : ContentDiscovery.execute_search over the             *)
(*                    ContentCache, with search, fetch and store faults.   *)
(*   SpecGrouper    : QueryLineGrouper.get_related_lines on its own.       *)
(*   SpecKnowledge  : KnowledgeAnalyzer.analyze_knowledge on its own.      *)
(*   SpecStored     : concurrent requests of the user whose line the      *)
(*                    store already holds.                                 *)
(*   SpecStream     : the websocket endpoint over                          *)
(*                    RecommendationOrchestrator.process_with_progress.    *)
(*   SpecAdmission  : the request semaphore of ContentDiscovery under the  *)
(*                    search and fetch fan-outs of concurrent calls.       *)
(*   SpecRetry      : _execute_single_search under its retry decorator.    *)
(***************************************************************************)
EXTENDS Integers, Sequences, FiniteSets, TLC

\* ------------------------------------------------------------------------
\* Bounds and input domains
\* ------------------------------------------------------------------------
MaxRequests == 2
MaxHistory == 2
MaxCandidates == 3
MaxSearches == 2
MaxLines == 3

Procs == {"p1", "p2"}
Users == {"u1", "u2"}
Queries == {"q1", "q2"}
RefinedTopics == {"t1"}

None == "None"

\* the URLs the search API can return
\* (a URL is the sequence of its parts, so that a substring test is a test
\* on the parts)
URLs == {<<"https://", "example.com", "/a">>,
         <<"https://", "example.com", "/b">>,
         <<"https://", "www.", "youtube.com", "/watch?v=1">>,
         <<"https://", "youtu.be", "/2">>}

\* ------------------------------------------------------------------------
\* State
\* ------------------------------------------------------------------------
VARIABLES
    query_lines,     \* db.query_lines: stored QueryLine documents, insertion order
    clock,           \* datetime.now(), a logical clock
    uuids,           \* number of uuid4() values handed out so far
    requests,        \* number of get_initial_response calls started
    pc,              \* pc[p]: position of request p in get_initial_response
    req,             \* req[p]: arguments (user_id, query) of request p
    existing_lines,  \* existing_lines[p]: lines loaded by _get_user_lines
    line_context,    \* line_context[p]: QueryLineContext returned to request p
    line,            \* line[p]: the in-memory QueryLine of request p
    call_log         \* call_log[p]: the last external call of request p and its outcome

varsL == <<query_lines, clock, uuids, requests, pc, req, existing_lines,
           line_context, line, call_log>>

VARIABLES
    calls,           \* OpenAICache.db.calls: call_id -> stored response (None: absent)
    stored_log,      \* history: (messages, model) -> response last written by store_call
    first_stored,    \* history: (messages, model) -> response first written since the last clear
    ncalls,          \* number of structured calls started
    cpc,             \* cpc[c]: position of caller c in its structured call
    ckey,            \* ckey[c]: the (messages, model) of the call
    cached,          \* cached[c]: what get_cached_response returned to c
    live,            \* live[c]: outcome of the live model call of c (None: not made)
    cresult,         \* cresult[c]: the value the call returned to its caller
    cfault           \* cfault[c]: a cache read or write of this call hit a store error

varsC == <<calls, stored_log, first_stored, ncalls, cpc, ckey, cached, live,
           cresult, cfault>>

VARIABLES
    nruns,           \* number of get_recommendations calls started
    rpc,             \* position in get_recommendations
    rquery,          \* initial_response.query_line.queries[-1]
    detection,       \* the MomentDetection the detector's model call produced
    moment,          \* what detect_moment returned
    strategy,        \* the local variable strategy
    attempt,         \* the local variable attempt
    content,         \* the candidates of the last execute_search
    filtered,        \* valuable_content of the last filter_content
    recorded,        \* argument and result of the last record_attempt
    counts,          \* per call: how often each collaborator was invoked
    recommendations_db, \* db.recommendations: the inserted documents
    rerr,            \* the stage whose exception ended the call (None: none)
    rresult          \* the RecommendationResult returned by the call

varsR == <<nruns, rpc, rquery, detection, moment, strategy, attempt, content,
           filtered, recorded, counts, recommendations_db, rerr, rresult>>

VARIABLES
    gs_call          \* the last generate_strategy call: arguments, path taken, result

varsG == <<gs_call>>

VARIABLES
    fc_pc,           \* position in filter_content
    fc_candidates,   \* the argument candidates
    fc_evals,        \* the evaluations made so far, one entry per _evaluate_content call
    attempted_ids,   \* the local variable attempted_ids
    valuable_content,\* the local variable valuable_content
    fc_result        \* the FilteredContent returned, or the error raised

varsF == <<fc_pc, fc_candidates, fc_evals, attempted_ids, valuable_content, fc_result>>

VARIABLES
    nsearches,       \* number of execute_search calls started
    dpc,             \* position in execute_search
    processed_content, \* ContentCache.db.processed_content: url -> document
    search_queries,  \* strategy.search_queries of the call
    search_log,      \* per query position: what the search API call came back with
    discovered_urls, \* the set built by _get_search_urls
    cached_content,  \* what cache.get_content returned
    new_content,     \* the content extracted for the new URLs
    fetch_log,       \* the URLs fetched by this call, with the outcome of each
    dfault,          \* which cache operations of this call failed
    dresult          \* what execute_search returned

varsD == <<nsearches, dpc, processed_content, search_queries, search_log,
           discovered_urls, cached_content, new_content, fetch_log, dfault, dresult>>

VARIABLES
    gr_call          \* the last get_related_lines call: arguments, model outcome, result

varsQ == <<gr_call>>

VARIABLES
    ka_call          \* the last analyze_knowledge call: arguments, model outcomes, result

varsK == <<ka_call>>

VARIABLES
    nconn,           \* number of websocket connections accepted
    wpc,             \* position of the connection in websocket_query / process_with_progress
    ws_sent,         \* the JSON messages sent on the connection, in order
    ws_closed,       \* websocket.close() has run
    ws_query,        \* the query of the connection
    ws_detection,    \* what the moment detection call came back with
    ws_moment,       \* moment: the detected LearningMoment, or None
    ws_strategy,     \* strategy
    ws_attempt,      \* attempt
    ws_content,      \* content of the current iteration
    ws_rounds,       \* history: filtered.valuable_content of each finished iteration
    ws_recommendations, \* recommendations
    ws_result,       \* what process_with_progress returned
    ws_err           \* the exception that ended the pipeline (None: none)

varsS == <<nconn, wpc, ws_sent, ws_closed, ws_query, ws_detection, ws_moment,
           ws_strategy, ws_attempt, ws_content, ws_rounds, ws_recommendations,
           ws_result, ws_err>>

VARIABLES
    backlog,         \* backlog[r]: new urls of call r that wait for a later batch, and
                     \* the number of batches started
    request_semaphore, \* request_semaphore._value: the free slots
    phase,           \* phase[r]: where execute_search call r is
    task             \* task[r][k]: state of the k-th coroutine of the current fan-out of r

varsA == <<backlog, request_semaphore, phase, task>>

VARIABLES
    rt_call          \* the last _execute_single_search call through its retry wrapper

varsT == <<rt_call>>

\* the state of the components that are exercised on their own
varsU == <<varsG, varsF, varsD, varsQ, varsK>>

\* the streaming endpoint, the admission semaphore and the retry wrapper
varsV == <<varsS, varsA, varsT>>

vars == <<varsL, varsC, varsR, varsU, varsV>>

\* ------------------------------------------------------------------------
\* Helpers on sequences
\* ------------------------------------------------------------------------
Range(s) == {s[i] : i \in 1..Len(s)}

Min(a, b) == IF a <= b THEN a ELSE b

Take(s, n) == SubSeq(s, 1, Min(n, Len(s)))

\* Python list indexing s[i]: negative indices count from the end, anything
\* outside -len(s)..len(s)-1 raises IndexError.
\* an index check that rejects negative indices
PyInRangeNonNegative(s, i) == 0 <= i /\ i < Len(s)

PyInRange(s, i) == -Len(s) <= i /\ i < Len(s)

PyIndex(s, i) == IF i >= 0 THEN s[i + 1] ELSE s[Len(s) + i + 1]

RECURSIVE FilterSeq(_, _)
FilterSeq(s, user_id) ==
    IF s = <<>> THEN <<>>
    ELSE IF Head(s).user_id = user_id
         THEN <<Head(s)>> \o FilterSeq(Tail(s), user_id)
         ELSE FilterSeq(Tail(s), user_id)

\* position of the first document with the greatest last_updated
MaxPos(s) ==
    CHOOSE i \in 1..Len(s) :
        /\ \A j \in 1..Len(s) : s[j].last_updated <= s[i].last_updated
        /\ \A j \in 1..(i - 1) : s[j].last_updated < s[i].last_updated

RemoveAt(s, i) == SubSeq(s, 1, i - 1) \o SubSeq(s, i + 1, Len(s))

\* cursor.sort("last_updated", -1)
RECURSIVE SortByLastUpdatedDesc(_)
SortByLastUpdatedDesc(s) ==
    IF s = <<>> THEN <<>>
    ELSE LET i == MaxPos(s)
         IN <<s[i]>> \o SortByLastUpdatedDesc(RemoveAt(s, i))

\* ------------------------------------------------------------------------
\* QueryLineManager storage operations
\* ------------------------------------------------------------------------
LineLimit == 100

NoLine == [user_id |-> None, line_id |-> 0, queries |-> <<>>, timestamps |-> <<>>,
           responses |-> <<>>, line_topic |-> None, last_updated |-> 0]

NoContext == [continues_line |-> FALSE, line_index |-> 0]

NoCall == [call |-> None, ok |-> TRUE]

\* QueryLineManager._get_user_lines
_get_user_lines(coll, user_id, limit) ==
    Take(SortByLastUpdatedDesc(FilterSeq(coll, user_id)), limit)

\* QueryLineManager._store_line
_store_line(coll, l) == Append(coll, l)

\* the filter document built by _update_line
UpdateFilterByTopic(doc, l) == doc.user_id = l.user_id /\ doc.line_topic = l.line_topic

UpdateFilter(doc, l) == doc.user_id = l.user_id /\ doc.line_id = l.line_id

\* an update that leaves a stored record alone when it holds more queries or
\* responses than the given line
_update_line_if_not_stale(coll, l) ==
    [i \in 1..Len(coll) |->
        IF /\ UpdateFilter(coll[i], l)
           /\ Len(coll[i].queries) <= Len(l.queries)
           /\ Len(coll[i].responses) <= Len(l.responses)
        THEN l ELSE coll[i]]

\* QueryLineManager._update_line: replace_one on the first matching document;
\* matched_count == 0 is only logged.
_update_line(coll, l) ==
    IF \E i \in 1..Len(coll) : UpdateFilter(coll[i], l)
    THEN LET i == CHOOSE k \in 1..Len(coll) :
                      /\ UpdateFilter(coll[k], l)
                      /\ \A j \in 1..(k - 1) : ~UpdateFilter(coll[j], l)
         IN [coll EXCEPT ![i] = l]
    ELSE coll

\* ------------------------------------------------------------------------
\* External collaborators: what a call can come back with
\* ------------------------------------------------------------------------
\* The line-continuation classifier (a structured model call, possibly served
\* from the structured-call cache): an API failure, or any QueryLineContext.
ClassifierOutcomes(lines) ==
    {[ok |-> FALSE, continues_line |-> FALSE, line_index |-> 0]}
    \cup {[ok |-> TRUE, continues_line |-> FALSE, line_index |-> 0]}
    \cup {[ok |-> TRUE, continues_line |-> TRUE, line_index |-> i] :
            i \in (-Len(lines) - 1)..Len(lines)}

\* The line analysis call: an API failure or a refined topic.
AnalysisOutcomes(l) ==
    {[ok |-> FALSE, refined_topic |-> None]}
    \cup {[ok |-> TRUE, refined_topic |-> t] : t \in {l.line_topic} \cup RefinedTopics}

\* The answer API: a failure (non-200, timeout) or the answer to the query.
Answer(query) == <<"answer", query>>

AnswerOutcomes(query) ==
    {[ok |-> FALSE, answer |-> None], [ok |-> TRUE, answer |-> Answer(query)]}

\* ------------------------------------------------------------------------
\* QueryLineManager._detect_line_context: the result it hands to its caller
\* ------------------------------------------------------------------------
\* (raised: the except branch of lines 144-146 re-raises)
_detect_line_context_default(o) ==
    [raised |-> FALSE,
     continues_line |-> IF o.ok THEN o.continues_line ELSE FALSE,
     line_index |-> IF o.ok THEN o.line_index ELSE 0]

_detect_line_context(o) ==
    IF o.ok
    THEN [raised |-> FALSE, continues_line |-> o.continues_line,
          line_index |-> o.line_index]
    ELSE [raised |-> TRUE, continues_line |-> FALSE, line_index |-> 0]

\* ------------------------------------------------------------------------
\* OpenAICache
\* ------------------------------------------------------------------------
MaxCalls == 3

Callers == {"c1", "c2"}
Messages == {"m1", "m2"}
Models == {"gpt-4o", "gpt-4o-mini"}
Responses == {"r1", "r2"}
APIError == "APIError"

Keys == Messages \X Models

\* OpenAICache._generate_call_id: SHA-256 of the canonical JSON of
\* {"messages", "model"}: one id per (messages, model).
_generate_call_id_messages_only(messages, model) == <<"sha256", messages, "">>

_generate_call_id(messages, model) == <<"sha256", messages, model>>

CallIds == {<<"sha256", m, mo>> : m \in Messages, mo \in Models \cup {""}}

\* OpenAICache.get_cached_response: the stored response, None on a miss and
\* None when the store raises (lines 76-78).
get_cached_response(db, messages, model, db_ok) ==
    IF db_ok THEN db[_generate_call_id(messages, model)] ELSE None

\* OpenAICache.store_call: update_one({"call_id"}, {"$set": record}, upsert=True)
store_call(db, messages, model, response) ==
    [db EXCEPT ![_generate_call_id(messages, model)] = response]

NoKey == <<None, None>>

\* ------------------------------------------------------------------------
\* SearchStrategy, SearchAttempt, StrategyGenerator
\* ------------------------------------------------------------------------
max_attempts == 3
MaxRuns == 2

LearningMoment == {"new_topic_no_context", "new_topic_with_context",
                   "concept_struggle", "goal_direction"}

IsError(x) == "error" \in DOMAIN x

ValidationError(missing) == [error |-> "ValidationError", missing |-> missing]

\* models/recommendations/strategy.py, SearchStrategy: the fields declared
\* without a default are required by the constructor.
SearchStrategyRequired ==
    {"search_queries", "reasoning", "technical_depth_target", "required_concepts"}

\* SearchStrategy(**kw): a ValidationError when a required field is missing,
\* previous_attempts defaults to [].
SearchStrategy(kw) ==
    IF SearchStrategyRequired \subseteq DOMAIN kw
    THEN [search_queries |-> kw.search_queries,
          reasoning |-> kw.reasoning,
          technical_depth_target |-> kw.technical_depth_target,
          required_concepts |-> kw.required_concepts,
          previous_attempts |-> IF "previous_attempts" \in DOMAIN kw
                                THEN kw.previous_attempts ELSE <<>>]
    ELSE ValidationError(SearchStrategyRequired \ DOMAIN kw)

\* SearchAttempt(query=, found_valuable_content=, valuable_content_ids=, failure_reason=)
SearchAttempt(query, valuable_content_ids, failure_reason) ==
    [query |-> query,
     found_valuable_content |-> valuable_content_ids # <<>>,
     valuable_content_ids |-> valuable_content_ids,
     failure_reason |-> failure_reason]

\* StrategyGenerator.record_attempt
record_attempt(s, query, valuable_content_ids, failure_reason) ==
    SearchStrategy(
        [search_queries |-> s.search_queries,
         technical_depth_target |-> s.technical_depth_target,
         required_concepts |-> s.required_concepts,
         previous_attempts |->
             Append(s.previous_attempts,
                    SearchAttempt(query, valuable_content_ids, failure_reason))])

\* StrategyGenerator._analyze_previous_attempts, lines 277-290: the fallback
\* refinement built when the refinement call fails.
FallbackRefinement(previous_strategy, query) ==
    LET successful_queries ==
            SelectSeq(previous_strategy.previous_attempts,
                      LAMBDA a : a.found_valuable_content)
        kept == [i \in 1..Len(successful_queries) |-> successful_queries[i].query]
    IN [keep_queries |-> kept,
        new_queries |-> IF \E i \in 1..Len(kept) : kept[i] = query
                        THEN <<>> ELSE <<query>>,
        adjusted_depth |-> None]

\* what the refinement model call can come back with
RefinementOutcomes(previous_strategy, query) ==
    {[ok |-> FALSE, keep_queries |-> <<>>, new_queries |-> <<>>, adjusted_depth |-> None]}
    \cup {[ok |-> TRUE, keep_queries |-> k, new_queries |-> n, adjusted_depth |-> d] :
            k \in {<<>>, previous_strategy.search_queries},
            n \in {<<>>, <<"q3">>},
            d \in {None, "deep"}}

\* StrategyGenerator._analyze_previous_attempts
_analyze_previous_attempts(previous_strategy, query, o) ==
    IF o.ok
    THEN [keep_queries |-> o.keep_queries, new_queries |-> o.new_queries,
          adjusted_depth |-> o.adjusted_depth]
    ELSE FallbackRefinement(previous_strategy, query)

\* StrategyGenerator.generate_strategy, lines 41-58: the refinement path
generate_strategy_refined(previous_strategy, refinement) ==
    SearchStrategy(
        [search_queries |-> refinement.keep_queries \o refinement.new_queries,
         technical_depth_target |->
             IF refinement.adjusted_depth # None
             THEN refinement.adjusted_depth
             ELSE previous_strategy.technical_depth_target,
         required_concepts |-> previous_strategy.required_concepts,
         previous_attempts |-> previous_strategy.previous_attempts])

\* StrategyGenerator.generate_strategy, lines 60-114: what the fresh-strategy
\* model call can come back with (parsed into a SearchStrategy by the client)
FreshStrategyOutcomes(query) ==
    {[error |-> APIError]}
    \cup {SearchStrategy([search_queries |-> sq, reasoning |-> <<"why">>,
                          technical_depth_target |-> d,
                          required_concepts |-> <<"concept">>]) :
            sq \in {<<query>>, <<query, "q3">>}, d \in {"basic", "deep"}}

\* StrategyGenerator.generate_strategy, line 41: the refinement path is taken
\* for a previous strategy (not None) that has recorded attempts.
TakesRefinementPath(previous_strategy) ==
    /\ previous_strategy # [error |-> None]
    /\ previous_strategy.previous_attempts # <<>>

\* StrategyGenerator.generate_strategy, lines 39-118: o is what the refinement
\* model call comes back with, f what the fresh-strategy call comes back with.
\* An error as result is the exception the function re-raises (116-118).
generate_strategy(query, previous_strategy, o, f) ==
    IF TakesRefinementPath(previous_strategy)
    THEN LET refinement == _analyze_previous_attempts(previous_strategy, query, o)
         IN [path |-> "refine", refinement |-> refinement,
             result |-> generate_strategy_refined(previous_strategy, refinement)]
    ELSE [path |-> "fresh",
          refinement |-> [keep_queries |-> <<>>, new_queries |-> <<>>,
                          adjusted_depth |-> None],
          result |-> f]

\* the attempts a recorded history can hold
AttemptInputs ==
    {SearchAttempt(q, ids, IF ids = <<>> THEN "No valuable content found" ELSE None) :
        q \in Queries \cup {"q3"}, ids \in {<<>>, <<"a">>}}

AttemptHistories(n) ==
    UNION {[1..k -> AttemptInputs] : k \in 0..n}

\* the previous_strategy arguments of generate_strategy: None, or a valid
\* SearchStrategy with up to n recorded attempts
PreviousStrategies(n) ==
    {[error |-> None]}
    \cup {SearchStrategy([search_queries |-> sq, reasoning |-> <<"why">>,
                          technical_depth_target |-> "basic",
                          required_concepts |-> <<"concept">>,
                          previous_attempts |-> h]) :
            sq \in {<<"q1">>, <<"q1", "q3">>}, h \in AttemptHistories(n)}

\* MomentDetector: what the detection model call can come back with
MomentOutcomes ==
    {[error |-> APIError]}
    \cup {[is_moment |-> b, moment_type |-> t] : b \in BOOLEAN, t \in LearningMoment}

\* MomentDetector.detect_moment, lines 87-96
detect_moment_always(d) == d.moment_type

detect_moment(d) == IF d.is_moment THEN d.moment_type ELSE None

\* ContentDiscovery.execute_search: never raises, returns the candidates
SearchOutcomes == {<<>>, <<"a">>, <<"a", "b">>}

\* ContentFilterer.filter_content: raises, or returns the valuable candidates
FilterOutcomes(candidates) ==
    {[error |-> APIError]}
    \cup {[valuable_content |-> v] :
            v \in {<<>>} \cup {<<candidates[i]>> : i \in 1..Len(candidates)}
                  \cup {candidates}}

\* the while condition of get_recommendations, line 172 (a SearchStrategy
\* object is always truthy)
LoopGuard(s, n) == ~IsError(s) /\ n < max_attempts

NoStrategy == [error |-> None]
NoDetection == [error |-> None]
NoRecorded == [in |-> NoStrategy, attempt |-> NoStrategy, out |-> NoStrategy]
NoResult == [moment |-> None, has_recommendations |-> FALSE, recommendations |-> <<>>]
NoCounts == [generate_strategy |-> 0, refine |-> 0, execute_search |-> 0,
             filter_content |-> 0, record_attempt |-> 0, store |-> 0]

\* ------------------------------------------------------------------------
\* Init
\* ------------------------------------------------------------------------
InitL ==
    /\ query_lines = <<>>
    /\ clock = 0
    /\ uuids = 0
    /\ requests = 0
    /\ pc = [p \in Procs |-> "idle"]
    /\ req = [p \in Procs |-> [user_id |-> None, query |-> None]]
    /\ existing_lines = [p \in Procs |-> <<>>]
    /\ line_context = [p \in Procs |-> NoContext]
    /\ line = [p \in Procs |-> NoLine]
    /\ call_log = [p \in Procs |-> NoCall]

InitC ==
    /\ calls = [id \in CallIds |-> None]
    /\ stored_log = [k \in Keys |-> None]
    /\ first_stored = [k \in Keys |-> None]
    /\ ncalls = 0
    /\ cpc = [c \in Callers |-> "idle"]
    /\ ckey = [c \in Callers |-> NoKey]
    /\ cached = [c \in Callers |-> None]
    /\ live = [c \in Callers |-> None]
    /\ cresult = [c \in Callers |-> None]
    /\ cfault = [c \in Callers |-> FALSE]

InitR ==
    /\ nruns = 0
    /\ rpc = "idle"
    /\ rquery = None
    /\ detection = NoDetection
    /\ moment = None
    /\ strategy = NoStrategy
    /\ attempt = 0
    /\ content = <<>>
    /\ filtered = <<>>
    /\ recorded = NoRecorded
    /\ counts = NoCounts
    /\ recommendations_db = <<>>
    /\ rerr = None
    /\ rresult = NoResult

NoGsCall == [path |-> None]
NoGrCall == [called |-> FALSE]
NoKaCall == [called |-> FALSE]
\* no document stored under a url
NoDocument == [absent |-> TRUE]
NoFault == [get_content |-> FALSE, store_content |-> FALSE]

InitG == gs_call = NoGsCall

InitF ==
    /\ fc_pc = "idle"
    /\ fc_candidates = <<>>
    /\ fc_evals = <<>>
    /\ attempted_ids = <<>>
    /\ valuable_content = <<>>
    /\ fc_result = [error |-> None]

InitD ==
    /\ nsearches = 0
    /\ dpc = "idle"
    /\ processed_content = [u \in URLs |-> NoDocument]
    /\ search_queries = <<>>
    /\ search_log = <<>>
    /\ discovered_urls = {}
    /\ cached_content = <<>>
    /\ new_content = <<>>
    /\ fetch_log = <<>>
    /\ dfault = NoFault
    /\ dresult = <<>>

InitQ == gr_call = NoGrCall

InitK == ka_call = NoKaCall

\* process_with_progress has not returned
NoWsResult == [returned |-> FALSE, moment |-> None, recommendations |-> <<>>]

InitS ==
    /\ nconn = 0
    /\ wpc = "idle"
    /\ ws_sent = <<>>
    /\ ws_closed = FALSE
    /\ ws_query = None
    /\ ws_detection = NoDetection
    /\ ws_moment = None
    /\ ws_strategy = NoStrategy
    /\ ws_attempt = 0
    /\ ws_content = <<>>
    /\ ws_rounds = <<>>
    /\ ws_recommendations = <<>>
    /\ ws_result = NoWsResult
    /\ ws_err = None

\* the execute_search calls that run on the one ContentDiscovery of the process
SearchCalls == {"r1", "r2"}

\* ContentDiscovery.__init__, lines 29 and 45: the capacity of the one
\* semaphore (10 by default; a small capacity lets the bounded fan-outs
\* contend for it)
max_concurrent_requests == 2

InitA ==
    /\ backlog = [r \in SearchCalls |-> [urls |-> 0, batches |-> 0]]
    /\ request_semaphore = max_concurrent_requests
    /\ phase = [r \in SearchCalls |-> "idle"]
    /\ task = [r \in SearchCalls |-> <<>>]

NoRtCall == [called |-> FALSE]

InitT == rt_call = NoRtCall

Init ==
    /\ InitL /\ InitC /\ InitR
    /\ InitG /\ InitF /\ InitD /\ InitQ /\ InitK
    /\ InitS /\ InitA /\ InitT

\* ------------------------------------------------------------------------
\* get_initial_response, step by step
\* ------------------------------------------------------------------------
\* get_or_update_line, line 46: load the user's lines.
GetUserLines(p) ==
    /\ pc[p] \in {"idle", "done", "raised"}
    /\ requests < MaxRequests
    /\ \E u \in Users, q \in Queries :
        /\ req' = [req EXCEPT ![p] = [user_id |-> u, query |-> q]]
        /\ existing_lines' =
              [existing_lines EXCEPT ![p] = _get_user_lines(query_lines, u, LineLimit)]
    /\ requests' = requests + 1
    /\ pc' = [pc EXCEPT ![p] = "detect"]
    /\ line_context' = [line_context EXCEPT ![p] = NoContext]
    /\ line' = [line EXCEPT ![p] = NoLine]
    /\ call_log' = [call_log EXCEPT ![p] = NoCall]
    /\ UNCHANGED <<query_lines, clock, uuids>>
    /\ UNCHANGED <<varsC, varsR, varsU, varsV>>

\* get_or_update_line, lines 49-70: classify, then append to the chosen line
\* or create a new one, and persist.
GetOrUpdateLine(p) ==
    /\ pc[p] = "detect"
    /\ \E o \in ClassifierOutcomes(existing_lines[p]) :
        LET res == _detect_line_context(o)
            ctx == [continues_line |-> res.continues_line,
                    line_index |-> res.line_index]
            now == clock + 1
        IN
        /\ call_log' = [call_log EXCEPT ![p] = [call |-> "detect_line", ok |-> o.ok]]
        /\ IF res.raised
           THEN /\ pc' = [pc EXCEPT ![p] = "raised"]
                /\ UNCHANGED <<query_lines, clock, uuids, line_context, line>>
           ELSE IF ctx.continues_line
           THEN LET old == PyIndex(existing_lines[p], ctx.line_index)
                IN IF ~PyInRange(existing_lines[p], ctx.line_index)
                   THEN /\ pc' = [pc EXCEPT ![p] = "raised"]
                        /\ line_context' = [line_context EXCEPT ![p] = ctx]
                        /\ UNCHANGED <<query_lines, clock, uuids, line>>
                   ELSE LET new == [old EXCEPT
                                       !.queries = Append(@, req[p].query),
                                       !.timestamps = Append(@, now),
                                       !.last_updated = now]
                        IN /\ query_lines' = _update_line(query_lines, new)
                           /\ line' = [line EXCEPT ![p] = new]
                           /\ line_context' = [line_context EXCEPT ![p] = ctx]
                           /\ clock' = now
                           /\ pc' = [pc EXCEPT ![p] = "analyze"]
                           /\ UNCHANGED uuids
           ELSE LET new == [user_id |-> req[p].user_id,
                            line_id |-> uuids + 1,
                            queries |-> <<req[p].query>>,
                            timestamps |-> <<now>>,
                            responses |-> <<>>,
                            line_topic |-> req[p].query,
                            last_updated |-> now]
                IN /\ query_lines' = _store_line(query_lines, new)
                   /\ line' = [line EXCEPT ![p] = new]
                   /\ line_context' = [line_context EXCEPT ![p] = ctx]
                   /\ uuids' = uuids + 1
                   /\ clock' = now
                   /\ pc' = [pc EXCEPT ![p] = "analyze"]
    /\ UNCHANGED <<requests, req, existing_lines>>
    /\ UNCHANGED <<varsC, varsR, varsU, varsV>>

\* get_or_update_line, lines 73-84: analyze the line, rename it if the
\* refined topic differs.
AnalyzeLine(p) ==
    /\ pc[p] = "analyze"
    /\ \E o \in AnalysisOutcomes(line[p]) :
        /\ call_log' = [call_log EXCEPT ![p] = [call |-> "analyze_line", ok |-> o.ok]]
        /\ IF ~o.ok
           THEN /\ pc' = [pc EXCEPT ![p] = "raised"]
                /\ UNCHANGED <<query_lines, line>>
           ELSE IF o.refined_topic # line[p].line_topic
           THEN LET new == [line[p] EXCEPT !.line_topic = o.refined_topic]
                IN /\ query_lines' = _update_line(query_lines, new)
                   /\ line' = [line EXCEPT ![p] = new]
                   /\ pc' = [pc EXCEPT ![p] = "answer"]
           ELSE /\ pc' = [pc EXCEPT ![p] = "answer"]
                /\ UNCHANGED <<query_lines, line>>
    /\ UNCHANGED <<clock, uuids, requests, req, existing_lines, line_context>>
    /\ UNCHANGED <<varsC, varsR, varsU, varsV>>

\* PerplexityClient.get_response, lines 119-126: what it does to the line once
\* the answer is there.
get_response_update(l, answer, now) ==
    [l EXCEPT !.responses = Append(@, answer),
              !.timestamps = Append(@, now),
              !.last_updated = now]

\* get_initial_response, lines 98-111: get the answer, append it to the line,
\* persist the line.
GetResponse(p) ==
    /\ pc[p] = "answer"
    /\ \E o \in AnswerOutcomes(req[p].query) :
        /\ call_log' = [call_log EXCEPT ![p] = [call |-> "perplexity", ok |-> o.ok]]
        /\ IF ~o.ok
           THEN /\ pc' = [pc EXCEPT ![p] = "raised"]
                /\ UNCHANGED <<query_lines, line, clock>>
           ELSE LET new == get_response_update(line[p], o.answer, clock + 1)
                IN /\ query_lines' = _update_line(query_lines, new)
                   /\ line' = [line EXCEPT ![p] = new]
                   /\ clock' = clock + 1
                   /\ pc' = [pc EXCEPT ![p] = "done"]
    /\ UNCHANGED <<uuids, requests, req, existing_lines, line_context>>
    /\ UNCHANGED <<varsC, varsR, varsU, varsV>>

get_initial_response(p) ==
    \/ GetUserLines(p)
    \/ GetOrUpdateLine(p)
    \/ AnalyzeLine(p)
    \/ GetResponse(p)

Next == \E p \in Procs : get_initial_response(p)

NextSeq == get_initial_response("p1")

Spec == Init /\ [][Next]_vars

SpecSeq == Init /\ [][NextSeq]_vars

\* The same requests on a store that already holds a line: the line that a
\* completed request of u1 for q1 leaves behind (created at 1, answered at 2).
StoredLine ==
    [user_id |-> "u1", line_id |-> 1, queries |-> <<"q1">>, timestamps |-> <<1, 2>>,
     responses |-> <<Answer("q1")>>, line_topic |-> "q1", last_updated |-> 2]

InitLStored ==
    /\ query_lines = <<StoredLine>>
    /\ clock = 2
    /\ uuids = 1
    /\ requests = 0
    /\ pc = [p \in Procs |-> "idle"]
    /\ req = [p \in Procs |-> [user_id |-> None, query |-> None]]
    /\ existing_lines = [p \in Procs |-> <<>>]
    /\ line_context = [p \in Procs |-> NoContext]
    /\ line = [p \in Procs |-> NoLine]
    /\ call_log = [p \in Procs |-> NoCall]

InitStored ==
    /\ InitLStored /\ InitC /\ InitR
    /\ InitG /\ InitF /\ InitD /\ InitQ /\ InitK
    /\ InitS /\ InitA /\ InitT

\* the concurrent requests of the user who owns the stored line
NextStored == \E p \in Procs : get_initial_response(p) /\ req'[p].user_id = "u1"

SpecStored == InitStored /\ [][NextStored]_vars

\* ------------------------------------------------------------------------
\* A structured call through the cache, as every model-backed component
\* makes it (QueryLineManager._detect_line_context, lines 102-146)
\* ------------------------------------------------------------------------
\* lines 102-113: the messages are built.
CallStart(c) ==
    /\ cpc[c] \in {"idle", "returned", "raised"}
    /\ ncalls < MaxCalls
    /\ \E k \in Keys : ckey' = [ckey EXCEPT ![c] = k]
    /\ ncalls' = ncalls + 1
    /\ cpc' = [cpc EXCEPT ![c] = "read"]
    /\ cached' = [cached EXCEPT ![c] = None]
    /\ live' = [live EXCEPT ![c] = None]
    /\ cresult' = [cresult EXCEPT ![c] = None]
    /\ cfault' = [cfault EXCEPT ![c] = FALSE]
    /\ UNCHANGED <<calls, stored_log, first_stored>>
    /\ UNCHANGED <<varsL, varsR, varsU, varsV>>

\* lines 117-122: read the cache; a hit is returned as it is.
GetCachedResponse(c) ==
    /\ cpc[c] = "read"
    /\ \E db_ok \in BOOLEAN :
        LET r == get_cached_response(calls, ckey[c][1], ckey[c][2], db_ok)
        IN /\ cached' = [cached EXCEPT ![c] = r]
           /\ cfault' = [cfault EXCEPT ![c] = ~db_ok]
           /\ IF r # None
              THEN /\ cresult' = [cresult EXCEPT ![c] = r]
                   /\ cpc' = [cpc EXCEPT ![c] = "returned"]
              ELSE /\ cpc' = [cpc EXCEPT ![c] = "live"]
                   /\ UNCHANGED cresult
    /\ UNCHANGED <<calls, stored_log, first_stored, ncalls, ckey, live>>
    /\ UNCHANGED <<varsL, varsR, varsU, varsV>>

\* lines 124-131: the live model call; an API error is re-raised (144-146).
LiveCall(c) ==
    /\ cpc[c] = "live"
    /\ \E o \in Responses \cup {APIError} :
        /\ live' = [live EXCEPT ![c] = o]
        /\ cpc' = [cpc EXCEPT ![c] = IF o = APIError THEN "raised" ELSE "store"]
    /\ UNCHANGED <<calls, stored_log, first_stored, ncalls, ckey, cached, cresult, cfault>>
    /\ UNCHANGED <<varsL, varsR, varsU, varsV>>

\* lines 133-142: write the result back, then return it.
StoreCall(c) ==
    /\ cpc[c] = "store"
    /\ \E db_ok \in BOOLEAN :
        IF db_ok
        THEN /\ calls' = store_call(calls, ckey[c][1], ckey[c][2], live[c])
             /\ stored_log' = [stored_log EXCEPT ![ckey[c]] = live[c]]
             /\ first_stored' = [first_stored EXCEPT ![ckey[c]] =
                                    IF @ = None THEN live[c] ELSE @]
             /\ cresult' = [cresult EXCEPT ![c] = live[c]]
             /\ cpc' = [cpc EXCEPT ![c] = "returned"]
             /\ UNCHANGED cfault
        ELSE \* store_call re-raises (openai_cache.py 115-117) and so does
             \* the caller (line_manager.py 144-146)
             /\ cfault' = [cfault EXCEPT ![c] = TRUE]
             /\ cpc' = [cpc EXCEPT ![c] = "raised"]
             /\ UNCHANGED <<calls, stored_log, first_stored, cresult>>
    /\ UNCHANGED <<ncalls, ckey, cached, live>>
    /\ UNCHANGED <<varsL, varsR, varsU, varsV>>

\* OpenAICache.clear_all
ClearAll ==
    /\ \E id \in CallIds : calls[id] # None
    /\ calls' = [id \in CallIds |-> None]
    /\ stored_log' = [k \in Keys |-> None]
    /\ first_stored' = [k \in Keys |-> None]
    /\ UNCHANGED <<ncalls, cpc, ckey, cached, live, cresult, cfault>>
    /\ UNCHANGED <<varsL, varsR, varsU, varsV>>

StructuredCall(c) ==
    \/ CallStart(c)
    \/ GetCachedResponse(c)
    \/ LiveCall(c)
    \/ StoreCall(c)

NextCache == (\E c \in Callers : StructuredCall(c)) \/ ClearAll

SpecCache == Init /\ [][NextCache]_vars

\* ------------------------------------------------------------------------
\* RecommendationOrchestrator.get_recommendations, step by step
\* ------------------------------------------------------------------------
Bump(c, field) == [c EXCEPT ![field] = @ + 1]

RaiseFrom(stage) ==
    /\ rpc' = "raised"
    /\ rerr' = stage

ReturnResult(m, has, recs) ==
    /\ rpc' = "returned"
    /\ rresult' = [moment |-> m, has_recommendations |-> has, recommendations |-> recs]

\* the call starts with a fresh frame
StartRecommendations ==
    /\ rpc \in {"idle", "returned", "raised"}
    /\ nruns < MaxRuns
    /\ nruns' = nruns + 1
    /\ \E q \in Queries : rquery' = q
    /\ rpc' = "knowledge"
    /\ detection' = NoDetection
    /\ moment' = None
    /\ strategy' = NoStrategy
    /\ attempt' = 0
    /\ content' = <<>>
    /\ filtered' = <<>>
    /\ recorded' = NoRecorded
    /\ counts' = NoCounts
    /\ rerr' = None
    /\ rresult' = NoResult
    /\ UNCHANGED recommendations_db
    /\ UNCHANGED <<varsL, varsC, varsU, varsV>>

\* lines 122-141: related lines, knowledge state, interactions; an error of
\* the knowledge analysis ends the call.
AnalyzeKnowledge ==
    /\ rpc = "knowledge"
    /\ \E ok \in BOOLEAN :
        IF ok THEN rpc' = "moment" /\ UNCHANGED rerr
        ELSE RaiseFrom("analyze_knowledge")
    /\ UNCHANGED <<nruns, rquery, detection, moment, strategy, attempt, content,
                   filtered, recorded, counts, recommendations_db, rresult>>
    /\ UNCHANGED <<varsL, varsC, varsU, varsV>>

\* lines 143-160: the moment gate.
DetectMoment ==
    /\ rpc = "moment"
    /\ \E d \in MomentOutcomes :
        IF IsError(d)
        THEN /\ RaiseFrom("detect_moment")
             /\ UNCHANGED <<detection, moment, rresult>>
        ELSE /\ detection' = d
             /\ moment' = detect_moment(d)
             /\ UNCHANGED rerr
             /\ IF detect_moment(d) = None
                THEN ReturnResult(None, FALSE, <<>>)
                ELSE rpc' = "strategy" /\ UNCHANGED rresult
    /\ UNCHANGED <<nruns, rquery, strategy, attempt, content, filtered, recorded,
                   counts, recommendations_db>>
    /\ UNCHANGED <<varsL, varsC, varsU, varsV>>

\* lines 162-171: the initial strategy.
GenerateStrategy ==
    /\ rpc = "strategy"
    /\ counts' = Bump(counts, "generate_strategy")
    /\ \E s \in FreshStrategyOutcomes(rquery) :
        IF IsError(s)
        THEN /\ RaiseFrom("generate_strategy")
             /\ UNCHANGED <<strategy, attempt>>
        ELSE /\ strategy' = s
             /\ attempt' = 0
             /\ rpc' = "loop"
             /\ UNCHANGED rerr
    /\ UNCHANGED <<nruns, rquery, detection, moment, content, filtered, recorded,
                   recommendations_db, rresult>>
    /\ UNCHANGED <<varsL, varsC, varsU, varsV>>

\* lines 172-179 and 228-233: the loop test, then either the search of this
\* iteration or the final result without recommendations.
ExecuteSearch ==
    /\ rpc = "loop"
    /\ IF LoopGuard(strategy, attempt)
       THEN /\ \E c \in SearchOutcomes : content' = c
            /\ counts' = Bump(counts, "execute_search")
            /\ rpc' = "filter"
            /\ UNCHANGED rresult
       ELSE /\ ReturnResult(moment, FALSE, <<>>)
            /\ UNCHANGED <<content, counts>>
    /\ UNCHANGED <<nruns, rquery, detection, moment, strategy, attempt, filtered,
                   recorded, recommendations_db, rerr>>
    /\ UNCHANGED <<varsL, varsC, varsU, varsV>>

\* a store that keeps one record, replaced by each new one
_store_recommendations_replacing(db, doc, db_ok) == IF db_ok THEN <<doc>> ELSE db

\* _store_recommendations: insert_one, an error is logged and swallowed
_store_recommendations(db, doc, db_ok) == IF db_ok THEN Append(db, doc) ELSE db

\* lines 181-206: filter; valuable content is stored and returned.
FilterContent ==
    /\ rpc = "filter"
    /\ \E f \in FilterOutcomes(content) :
        IF IsError(f)
        THEN /\ RaiseFrom("filter_content")
             /\ counts' = Bump(counts, "filter_content")
             /\ UNCHANGED <<filtered, recommendations_db, rresult>>
        ELSE /\ filtered' = f.valuable_content
             /\ UNCHANGED rerr
             /\ IF f.valuable_content # <<>>
                THEN /\ \E db_ok \in BOOLEAN :
                          recommendations_db' =
                              _store_recommendations(
                                  recommendations_db,
                                  [query |-> rquery, moment |-> moment,
                                   recommendations |-> f.valuable_content],
                                  db_ok)
                     /\ counts' = Bump(Bump(counts, "filter_content"), "store")
                     /\ ReturnResult(moment, TRUE, f.valuable_content)
                ELSE /\ rpc' = "record"
                     /\ counts' = Bump(counts, "filter_content")
                     /\ UNCHANGED <<recommendations_db, rresult>>
    /\ UNCHANGED <<nruns, rquery, detection, moment, strategy, attempt, content,
                   recorded>>
    /\ UNCHANGED <<varsL, varsC, varsU, varsV>>

\* a failed iteration that loops again without recording or counting
RetryWithoutRecording ==
    /\ rpc = "record"
    /\ rpc' = "loop"
    /\ UNCHANGED <<nruns, rquery, detection, moment, strategy, attempt, content,
                   filtered, recorded, counts, recommendations_db, rerr, rresult>>
    /\ UNCHANGED <<varsL, varsC, varsU, varsV>>

\* lines 208-226: record the failed attempt, refine the strategy, count the
\* attempt.  An exception of record_attempt or generate_strategy ends the call
\* (lines 235-237).
RecordAndRefine ==
    /\ rpc = "record"
    /\ LET a == SearchAttempt(rquery, <<>>, "No valuable content found")
           s1 == record_attempt(strategy, rquery, <<>>, "No valuable content found")
       IN /\ recorded' = [in |-> strategy, attempt |-> a, out |-> s1]
          /\ IF IsError(s1)
             THEN /\ RaiseFrom("record_attempt")
                  /\ counts' = Bump(counts, "record_attempt")
                  /\ UNCHANGED <<strategy, attempt>>
             ELSE \E o \in RefinementOutcomes(s1, rquery) :
                    LET s2 == generate_strategy_refined(
                                  s1, _analyze_previous_attempts(s1, rquery, o))
                    IN /\ counts' = Bump(Bump(counts, "record_attempt"), "refine")
                       /\ IF IsError(s2)
                          THEN /\ RaiseFrom("generate_strategy")
                               /\ strategy' = s1
                               /\ UNCHANGED attempt
                          ELSE /\ strategy' = s2
                               /\ attempt' = attempt + 1
                               /\ rpc' = "loop"
                               /\ UNCHANGED rerr
    /\ UNCHANGED <<nruns, rquery, detection, moment, content, filtered,
                   recommendations_db, rresult>>
    /\ UNCHANGED <<varsL, varsC, varsU, varsV>>

get_recommendations ==
    \/ StartRecommendations
    \/ AnalyzeKnowledge
    \/ DetectMoment
    \/ GenerateStrategy
    \/ ExecuteSearch
    \/ FilterContent
    \/ RecordAndRefine

NextRec == get_recommendations

SpecRec == Init /\ [][NextRec]_vars

\* ------------------------------------------------------------------------
\* StrategyGenerator.generate_strategy called on its own
\* ------------------------------------------------------------------------
GenerateStrategyCall ==
    /\ gs_call = NoGsCall
    /\ \E q \in Queries, previous_strategy \in PreviousStrategies(MaxHistory) :
         IF TakesRefinementPath(previous_strategy)
         THEN \E o \in RefinementOutcomes(previous_strategy, q) :
                gs_call' = [query |-> q, previous_strategy |-> previous_strategy,
                            refinement_ok |-> o.ok, fresh |-> [error |-> None]]
                           @@ generate_strategy(q, previous_strategy, o, [error |-> None])
         ELSE \E f \in FreshStrategyOutcomes(q) :
                gs_call' = [query |-> q, previous_strategy |-> previous_strategy,
                            refinement_ok |-> FALSE, fresh |-> f]
                           @@ generate_strategy(q, previous_strategy,
                                                [ok |-> FALSE], f)
    /\ UNCHANGED <<varsL, varsC, varsR, varsF, varsD, varsQ, varsK, varsV>>

NextStrategy == GenerateStrategyCall

SpecStrategy == Init /\ [][NextStrategy]_vars

\* ------------------------------------------------------------------------
\* ContentFilterer.filter_content, one candidate at a time
\* ------------------------------------------------------------------------
ContentIds == {"a", "b", "c"}
Scores == {6, 9}

\* the candidates argument: ProcessedContent items, named by content_id
CandidateLists == UNION {[1..n -> ContentIds] : n \in 0..MaxCandidates}

\* _evaluate_content: raises, or returns a ContentEvaluation
EvaluationOutcomes ==
    {[error |-> APIError]}
    \cup {[is_valuable |-> v, value_score |-> sc] : v \in BOOLEAN, sc \in Scores}

\* position of the first element with the lowest value_score (a sort without
\* reverse=True)
MinScorePos(s) ==
    CHOOSE i \in 1..Len(s) :
        /\ \A j \in 1..Len(s) : s[i].value_score <= s[j].value_score
        /\ \A j \in 1..(i - 1) : s[i].value_score < s[j].value_score

\* position of the first element with the highest value_score
MaxScorePos(s) ==
    CHOOSE i \in 1..Len(s) :
        /\ \A j \in 1..Len(s) : s[j].value_score <= s[i].value_score
        /\ \A j \in 1..(i - 1) : s[j].value_score < s[i].value_score

\* valuable_content.sort(key=lambda x: x.value_score, reverse=True), line 98
\* (list.sort is stable, also with reverse=True)
RECURSIVE SortByValueScoreDesc(_)
SortByValueScoreDesc(s) ==
    IF s = <<>> THEN <<>>
    ELSE LET i == MaxScorePos(s)
         IN <<s[i]>> \o SortByValueScoreDesc(RemoveAt(s, i))

\* the for loop of line 57 stops as soon as a candidate is valuable
CandidatesLeftUntilValuable ==
    Len(attempted_ids) < Len(fc_candidates) /\ valuable_content = <<>>

\* the for loop of line 57 has a candidate left
CandidatesLeft == Len(attempted_ids) < Len(fc_candidates)

FilterStart ==
    /\ fc_pc = "idle"
    /\ \E c \in CandidateLists : fc_candidates' = c
    /\ fc_pc' = "loop"
    /\ fc_evals' = <<>>
    /\ attempted_ids' = <<>>
    /\ valuable_content' = <<>>
    /\ fc_result' = [error |-> None]
    /\ UNCHANGED <<varsL, varsC, varsR, varsG, varsD, varsQ, varsK, varsV>>

\* lines 57-95: one iteration; an exception of the evaluation ends the call
\* (lines 105-107).
EvaluateContent ==
    /\ fc_pc = "loop"
    /\ CandidatesLeft
    /\ LET cid == fc_candidates[Len(attempted_ids) + 1]
       IN /\ attempted_ids' = Append(attempted_ids, cid)
          /\ \E e \in EvaluationOutcomes :
               IF IsError(e)
               THEN /\ fc_pc' = "raised"
                    /\ fc_result' = e
                    /\ UNCHANGED <<fc_evals, valuable_content>>
               ELSE /\ fc_evals' = Append(fc_evals,
                                          [content_id |-> cid,
                                           is_valuable |-> e.is_valuable,
                                           value_score |-> e.value_score])
                    /\ valuable_content' =
                          IF e.is_valuable
                          THEN Append(valuable_content,
                                      [content_id |-> cid, value_score |-> e.value_score])
                          ELSE valuable_content
                    /\ UNCHANGED <<fc_pc, fc_result>>
    /\ UNCHANGED fc_candidates
    /\ UNCHANGED <<varsL, varsC, varsR, varsG, varsD, varsQ, varsK, varsV>>

\* lines 97-103: sort and return.
FilterReturn ==
    /\ fc_pc = "loop"
    /\ ~CandidatesLeft
    /\ valuable_content' = SortByValueScoreDesc(valuable_content)
    /\ fc_result' = [valuable_content |-> SortByValueScoreDesc(valuable_content),
                     attempted_content |-> attempted_ids]
    /\ fc_pc' = "returned"
    /\ UNCHANGED <<fc_candidates, fc_evals, attempted_ids>>
    /\ UNCHANGED <<varsL, varsC, varsR, varsG, varsD, varsQ, varsK, varsV>>

filter_content ==
    \/ FilterStart
    \/ EvaluateContent
    \/ FilterReturn

NextFilter == filter_content

SpecFilter == Init /\ [][NextFilter]_vars

\* ------------------------------------------------------------------------
\* ContentDiscovery.execute_search and the ContentCache
\* ------------------------------------------------------------------------
\* the search_queries of the strategies searched with
StrategyQueries == {<<"q1">>, <<"q1", "q2">>}

\* `part in url` for a URL given by its parts
Contains(url, part) == \E i \in 1..Len(url) : url[i] = part

\* the elements of a set as a list (list(discovered_urls), cursor.to_list):
\* the order is the store's or the hash order, one fixed order is taken here
RECURSIVE SeqOf(_)
SeqOf(S) ==
    IF S = {} THEN <<>>
    ELSE LET x == CHOOSE y \in S : TRUE
         IN <<x>> \o SeqOf(S \ {x})

\* PerplexityClient.get_response as used by _execute_single_search: raises, or
\* returns the citations
CitationOutcomes ==
    {[ok |-> FALSE, urls |-> {}]}
    \cup {[ok |-> TRUE, urls |-> S] : S \in {T \in SUBSET URLs : Cardinality(T) <= 2}}

\* the search without the filter of line 95
_execute_single_search_unfiltered(o) ==
    IF o.ok THEN o.urls ELSE {}

\* ContentDiscovery._execute_single_search, lines 88-102: the citations
\* without "youtube.com", [] when the call failed
_execute_single_search(o) ==
    IF o.ok THEN {u \in o.urls : ~Contains(u, "youtube.com")} ELSE {}

\* ContentDiscovery._get_search_urls, lines 60-82: the union of the results
_get_search_urls(log) ==
    UNION {_execute_single_search(log[i]) : i \in 1..Len(log)}

\* the ProcessedContent extracted from url by call n
ProcessedContent(url, n) == [url |-> url, content_id |-> <<"sha256", url>>, extracted_at |-> n]

\* ContentCache.get_content, lines 32-47: the documents whose url is among
\* urls, [] on a store error
get_content(db, urls, db_ok) ==
    IF db_ok THEN SeqOf({db[u] : u \in {v \in urls : db[v] # NoDocument}})
    ELSE <<>>

\* ContentCache.store_content, lines 49-77: upserts item by item; a store
\* error at item k + 1 leaves the first k written and is re-raised
store_content(db, items, k) ==
    [u \in URLs |->
        IF \E i \in 1..k : items[i].url = u
        THEN items[CHOOSE i \in 1..k : items[i].url = u]
        ELSE db[u]]

\* what fetching and extracting one URL can come to (_process_url, 144-166)
FetchOutcomes == {"ok", "timeout", "status", "extract_failed"}

\* one failed URL empties the whole batch
_process_batch_all_or_nothing(log, n) ==
    IF \E i \in 1..Len(log) : log[i].outcome # "ok"
    THEN <<>>
    ELSE [i \in 1..Len(log) |-> ProcessedContent(log[i].url, n)]

\* ContentDiscovery._process_batch, lines 133-142, over _process_url: the
\* content of the URLs whose fetch and extraction succeeded
_process_batch(log, n) ==
    LET ok == SelectSeq(log, LAMBDA f : f.outcome = "ok")
    IN [i \in 1..Len(ok) |-> ProcessedContent(ok[i].url, n)]

UrlsOf(items) == {items[i].url : i \in 1..Len(items)}

DiscoveryReturn(r) ==
    /\ dresult' = r
    /\ dpc' = "returned"

\* a call of execute_search starts
DiscoveryStart ==
    /\ dpc \in {"idle", "returned"}
    /\ nsearches < MaxSearches
    /\ nsearches' = nsearches + 1
    /\ \E sq \in StrategyQueries : search_queries' = sq
    /\ dpc' = "search"
    /\ search_log' = <<>>
    /\ discovered_urls' = {}
    /\ cached_content' = <<>>
    /\ new_content' = <<>>
    /\ fetch_log' = <<>>
    /\ dfault' = NoFault
    /\ dresult' = <<>>
    /\ UNCHANGED processed_content
    /\ UNCHANGED <<varsL, varsC, varsR, varsG, varsF, varsQ, varsK, varsV>>

\* execute_search, lines 50-52: the searches of all queries; no URL at all
\* ends the call with [].
GetSearchUrls ==
    /\ dpc = "search"
    /\ \E log \in [1..Len(search_queries) -> CitationOutcomes] :
         /\ search_log' = log
         /\ discovered_urls' = _get_search_urls(log)
         /\ IF _get_search_urls(log) = {}
            THEN DiscoveryReturn(<<>>)
            ELSE dpc' = "cache" /\ UNCHANGED dresult
    /\ UNCHANGED <<nsearches, processed_content, search_queries, cached_content,
                   new_content, fetch_log, dfault>>
    /\ UNCHANGED <<varsL, varsC, varsR, varsG, varsF, varsQ, varsK, varsV>>

\* _process_content, lines 108-114: the cache read; nothing new ends the call
\* with the cached content.
GetContent ==
    /\ dpc = "cache"
    /\ \E db_ok \in BOOLEAN :
         LET got == get_content(processed_content, discovered_urls, db_ok)
         IN /\ cached_content' = got
            /\ dfault' = [dfault EXCEPT !.get_content = ~db_ok]
            /\ IF discovered_urls \subseteq UrlsOf(got)
               THEN DiscoveryReturn(got)
               ELSE dpc' = "fetch" /\ UNCHANGED dresult
    /\ UNCHANGED <<nsearches, processed_content, search_queries, search_log,
                   discovered_urls, new_content, fetch_log>>
    /\ UNCHANGED <<varsL, varsC, varsR, varsG, varsF, varsQ, varsK, varsV>>

\* _process_content, lines 112-127: fetch and extract the new URLs; nothing
\* extracted ends the call with the cached content.
ProcessNewUrls ==
    /\ dpc = "fetch"
    /\ LET new_urls == SeqOf(discovered_urls \ UrlsOf(cached_content))
       IN \E outcomes \in [1..Len(new_urls) -> FetchOutcomes] :
            LET log == [i \in 1..Len(new_urls) |->
                          [url |-> new_urls[i], outcome |-> outcomes[i]]]
                got == _process_batch(log, nsearches)
            IN /\ fetch_log' = log
               /\ new_content' = got
               /\ IF got = <<>>
                  THEN DiscoveryReturn(cached_content)
                  ELSE dpc' = "store" /\ UNCHANGED dresult
    /\ UNCHANGED <<nsearches, processed_content, search_queries, search_log,
                   discovered_urls, cached_content, dfault>>
    /\ UNCHANGED <<varsL, varsC, varsR, varsG, varsF, varsQ, varsK, varsV>>

\* _process_content, lines 123-131: the cache write; when it raises, the
\* except branch returns the cached content only.
StoreContent ==
    /\ dpc = "store"
    /\ \/ /\ processed_content' =
                store_content(processed_content, new_content, Len(new_content))
          /\ DiscoveryReturn(cached_content \o new_content)
          /\ UNCHANGED dfault
       \/ \E k \in 0..(Len(new_content) - 1) :
             /\ processed_content' = store_content(processed_content, new_content, k)
             /\ dfault' = [dfault EXCEPT !.store_content = TRUE]
             /\ DiscoveryReturn(cached_content)
    /\ UNCHANGED <<nsearches, search_queries, search_log, discovered_urls,
                   cached_content, new_content, fetch_log>>
    /\ UNCHANGED <<varsL, varsC, varsR, varsG, varsF, varsQ, varsK, varsV>>

execute_search ==
    \/ DiscoveryStart
    \/ GetSearchUrls
    \/ GetContent
    \/ ProcessNewUrls
    \/ StoreContent

NextDiscovery == execute_search

SpecDiscovery == Init /\ [][NextDiscovery]_vars

\* ------------------------------------------------------------------------
\* QueryLineGrouper.get_related_lines called on its own
\* ------------------------------------------------------------------------
\* the user's lines, and a current line that is not among them
GrLines == {[line_id |-> i] : i \in 1..MaxLines}
UnstoredLine == [line_id |-> 0]

\* the all_lines argument: distinct lines
AllLinesInputs ==
    {l \in UNION {[1..n -> GrLines] : n \in 0..MaxLines} :
        \A i, j \in 1..Len(l) : i # j => l[i] # l[j]}

\* the indices the model can select
IndexLists ==
    UNION {[1..n -> (0 - MaxLines - 1)..MaxLines] : n \in 0..2}

\* the structured call of lines 69-91: the cache read hits or misses, the
\* live call fails or returns indices, the write-back succeeds or raises
GroupingOutcomes ==
    {[cached |-> FALSE, ok |-> FALSE, indices |-> <<>>, store_ok |-> TRUE]}
    \cup {[cached |-> c, ok |-> TRUE, indices |-> ix, store_ok |-> st] :
            c \in BOOLEAN, ix \in IndexLists, st \in BOOLEAN}

\* the call raised inside the try block: the live call failed, the write-back
\* raised, or an index is out of range (IndexError at line 96)
GroupingError(all_lines, o) ==
    \/ ~o.cached /\ (~o.ok \/ ~o.store_ok)
    \/ \E k \in 1..Len(o.indices) : ~PyInRange(all_lines, o.indices[k])

\* lines 96-98 without the current line appended
get_related_lines_selected_only(current_line, all_lines, o) ==
    IF Len(all_lines) <= 1
    THEN [model_called |-> FALSE, result |-> <<current_line>>]
    ELSE IF GroupingError(all_lines, o)
    THEN [model_called |-> ~o.cached, result |-> <<current_line>>]
    ELSE [model_called |-> ~o.cached,
          result |-> [k \in 1..Len(o.indices) |-> PyIndex(all_lines, o.indices[k])]]

\* QueryLineGrouper.get_related_lines, lines 32-109
get_related_lines(current_line, all_lines, o) ==
    IF Len(all_lines) <= 1
    THEN [model_called |-> FALSE, result |-> <<current_line>>]
    ELSE IF GroupingError(all_lines, o)
    THEN [model_called |-> ~o.cached, result |-> <<current_line>>]
    ELSE LET related_lines ==
                 [k \in 1..Len(o.indices) |-> PyIndex(all_lines, o.indices[k])]
         IN [model_called |-> ~o.cached,
             result |-> IF current_line \in Range(related_lines)
                        THEN related_lines
                        ELSE Append(related_lines, current_line)]

GetRelatedLinesCall ==
    /\ gr_call = NoGrCall
    /\ \E current_line \in GrLines \cup {UnstoredLine}, all_lines \in AllLinesInputs,
          o \in GroupingOutcomes :
         gr_call' = [called |-> TRUE, current_line |-> current_line,
                     all_lines |-> all_lines, outcome |-> o]
                    @@ get_related_lines(current_line, all_lines, o)
    /\ UNCHANGED <<varsL, varsC, varsR, varsG, varsF, varsD, varsK, varsV>>

NextGrouper == GetRelatedLinesCall

SpecGrouper == Init /\ [][NextGrouper]_vars

\* ------------------------------------------------------------------------
\* KnowledgeAnalyzer.analyze_knowledge called on its own
\* ------------------------------------------------------------------------
\* the current_line argument: a line whose latest query is answered or not
KaLines ==
    {[queries |-> qs, responses |-> rs] :
        qs \in {<<"q1">>, <<"q1", "q2">>},
        rs \in {<<>>, <<Answer("q1")>>, <<Answer("q1"), Answer("q2")>>}}

ConceptLists == {<<>>, <<"c1">>, <<"c1", "c2">>}

\* the primary structured call (lines 83-105): the cache hits or misses, the
\* live call fails or returns a KnowledgeState, the write-back succeeds or
\* raises
PrimaryOutcomes ==
    {[cached |-> FALSE, ok |-> FALSE, latest_response_concepts |-> <<>>, store_ok |-> TRUE]}
    \cup {[cached |-> c, ok |-> TRUE, latest_response_concepts |-> cs, store_ok |-> st] :
            c \in BOOLEAN, cs \in ConceptLists, st \in BOOLEAN}

\* the concept-extraction call (lines 141-164)
ExtractionOutcomes ==
    {[cached |-> FALSE, ok |-> FALSE, concepts |-> <<>>, store_ok |-> TRUE]}
    \cup {[cached |-> c, ok |-> TRUE, concepts |-> cs, store_ok |-> st] :
            c \in BOOLEAN, cs \in {<<>>, <<"c3">>}, st \in BOOLEAN}

\* a structured call raised: the live call failed or the write-back raised
CallFailed(o) == ~o.cached /\ (~o.ok \/ ~o.store_ok)

\* KnowledgeAnalyzer._extract_response_concepts, lines 120-168: [] on any
\* exception
_extract_response_concepts(e) ==
    IF CallFailed(e) THEN <<>> ELSE e.concepts

\* a failed extraction leaves the concepts of the primary analysis in place
analyze_knowledge_keep_primary(current_line, p, e) ==
    IF CallFailed(p)
    THEN [raised |-> TRUE, extracted |-> FALSE, latest_response_concepts |-> <<>>]
    ELSE IF current_line.responses # <<>> /\ ~CallFailed(e)
    THEN [raised |-> FALSE, extracted |-> TRUE,
          latest_response_concepts |-> _extract_response_concepts(e)]
    ELSE [raised |-> FALSE, extracted |-> current_line.responses # <<>>,
          latest_response_concepts |-> p.latest_response_concepts]

\* KnowledgeAnalyzer.analyze_knowledge, lines 32-118: an exception of the
\* primary call is re-raised; with a response on the line, the extracted
\* concepts replace those of the primary analysis
analyze_knowledge(current_line, p, e) ==
    IF CallFailed(p)
    THEN [raised |-> TRUE, extracted |-> FALSE, latest_response_concepts |-> <<>>]
    ELSE IF current_line.responses # <<>>
    THEN [raised |-> FALSE, extracted |-> TRUE,
          latest_response_concepts |-> _extract_response_concepts(e)]
    ELSE [raised |-> FALSE, extracted |-> FALSE,
          latest_response_concepts |-> p.latest_response_concepts]

AnalyzeKnowledgeCall ==
    /\ ka_call = NoKaCall
    /\ \E current_line \in KaLines, p \in PrimaryOutcomes, e \in ExtractionOutcomes :
         ka_call' = [called |-> TRUE, current_line |-> current_line,
                     primary |-> p, extraction |-> e]
                    @@ analyze_knowledge(current_line, p, e)
    /\ UNCHANGED <<varsL, varsC, varsR, varsG, varsF, varsD, varsQ, varsV>>

NextKnowledge == AnalyzeKnowledgeCall

SpecKnowledge == Init /\ [][NextKnowledge]_vars

\* ------------------------------------------------------------------------
\* The streaming endpoint: websocket_query over process_with_progress
\* ------------------------------------------------------------------------
MaxConnections == 2

\* models/page_rendering.py, ProcessStep
ProcessStep == {"initial", "analyzing", "knowledge", "moment", "strategy",
                "searching", "extracting", "finalizing", "failed"}

StepMessage(step) == [step |-> step]

\* main.py, lines 130-138: the terminal message of a successful request
CompleteMessage(recommendations) ==
    [type |-> "complete", data |-> [recommendations |-> recommendations]]

\* main.py, line 141
ErrorMessage(e) == [type |-> "error", message |-> e]

\* str(e) of the AttributeError of None.value
NoneHasNoValue == "'NoneType' object has no attribute 'value'"

\* an except branch that sends nothing
on_exception_silent(sent, e) == sent

\* main.py, lines 140-141: the except branch of websocket_query
on_exception(sent, e) == Append(sent, ErrorMessage(e))

\* an iteration that always reports a failure
finalizing_steps_always_failed(valuable) == <<"finalizing", "failed">>

\* process_with_progress, lines 307-323: the events at the end of an iteration
finalizing_steps(valuable) ==
    IF valuable # <<>> THEN <<"finalizing">> ELSE <<"finalizing", "failed">>

\* an exception raised in the pipeline after the messages in sent: it is
\* logged and re-raised by process_with_progress (lines 356-358), answered
\* with an error message and the connection is closed (main.py, 140-143).
WsRaise(sent, e) ==
    /\ ws_sent' = on_exception(sent, e)
    /\ ws_err' = e
    /\ ws_closed' = TRUE
    /\ wpc' = "closed"

\* a stage that sends its progress event and then either completes or raises
WsStage(step, stage, next) ==
    \E ok \in BOOLEAN :
        IF ok
        THEN /\ ws_sent' = Append(ws_sent, StepMessage(step))
             /\ wpc' = next
             /\ UNCHANGED <<ws_err, ws_closed>>
        ELSE WsRaise(Append(ws_sent, StepMessage(step)), stage)

\* main.py, line 115: a connection is accepted
WsAccept ==
    /\ wpc \in {"idle", "closed"}
    /\ nconn < MaxConnections
    /\ nconn' = nconn + 1
    /\ \E q \in Queries : ws_query' = q
    /\ wpc' = "initial"
    /\ ws_sent' = <<>>
    /\ ws_closed' = FALSE
    /\ ws_detection' = NoDetection
    /\ ws_moment' = None
    /\ ws_strategy' = NoStrategy
    /\ ws_attempt' = 0
    /\ ws_content' = <<>>
    /\ ws_rounds' = <<>>
    /\ ws_recommendations' = <<>>
    /\ ws_result' = NoWsResult
    /\ ws_err' = None
    /\ UNCHANGED <<varsL, varsC, varsR, varsU, varsA, varsT>>

\* process_with_progress, lines 245-246
WsInitial ==
    /\ wpc = "initial"
    /\ WsStage("initial", "get_initial_response", "analyzing")
    /\ UNCHANGED <<nconn, ws_query, ws_detection, ws_moment, ws_strategy,
                   ws_attempt, ws_content, ws_rounds, ws_recommendations, ws_result>>
    /\ UNCHANGED <<varsL, varsC, varsR, varsU, varsA, varsT>>

\* lines 249-255
WsAnalyzing ==
    /\ wpc = "analyzing"
    /\ WsStage("analyzing", "_get_user_lines", "knowledge")
    /\ UNCHANGED <<nconn, ws_query, ws_detection, ws_moment, ws_strategy,
                   ws_attempt, ws_content, ws_rounds, ws_recommendations, ws_result>>
    /\ UNCHANGED <<varsL, varsC, varsR, varsU, varsA, varsT>>

\* lines 258-266
WsKnowledge ==
    /\ wpc = "knowledge"
    /\ WsStage("knowledge", "analyze_knowledge", "moment")
    /\ UNCHANGED <<nconn, ws_query, ws_detection, ws_moment, ws_strategy,
                   ws_attempt, ws_content, ws_rounds, ws_recommendations, ws_result>>
    /\ UNCHANGED <<varsL, varsC, varsR, varsU, varsA, varsT>>

\* lines 269-278: the moment gate
WsMoment ==
    /\ wpc = "moment"
    /\ LET sent == Append(ws_sent, StepMessage("moment"))
       IN \E d \in MomentOutcomes :
            IF IsError(d)
            THEN /\ WsRaise(sent, "detect_moment")
                 /\ UNCHANGED <<ws_detection, ws_moment>>
            ELSE /\ ws_sent' = sent
                 /\ ws_detection' = d
                 /\ ws_moment' = detect_moment(d)
                 /\ wpc' = IF detect_moment(d) = None THEN "return" ELSE "strategy"
                 /\ UNCHANGED <<ws_err, ws_closed>>
    /\ UNCHANGED <<nconn, ws_query, ws_strategy, ws_attempt, ws_content,
                   ws_rounds, ws_recommendations, ws_result>>
    /\ UNCHANGED <<varsL, varsC, varsR, varsU, varsA, varsT>>

\* lines 280-289: the initial strategy
WsStrategy ==
    /\ wpc = "strategy"
    /\ LET sent == Append(ws_sent, StepMessage("strategy"))
       IN \E s \in FreshStrategyOutcomes(ws_query) :
            IF IsError(s)
            THEN /\ WsRaise(sent, "generate_strategy")
                 /\ UNCHANGED <<ws_strategy, ws_attempt>>
            ELSE /\ ws_sent' = sent
                 /\ ws_strategy' = s
                 /\ ws_attempt' = 0
                 /\ wpc' = "loop"
                 /\ UNCHANGED <<ws_err, ws_closed>>
    /\ UNCHANGED <<nconn, ws_query, ws_detection, ws_moment, ws_content,
                   ws_rounds, ws_recommendations, ws_result>>
    /\ UNCHANGED <<varsL, varsC, varsR, varsU, varsA, varsT>>

\* lines 290-293: the loop test and the search of the iteration
WsSearch ==
    /\ wpc = "loop"
    /\ IF LoopGuard(ws_strategy, ws_attempt)
       THEN /\ ws_sent' = Append(ws_sent, StepMessage("searching"))
            /\ \E c \in SearchOutcomes : ws_content' = c
            /\ wpc' = "extract"
       ELSE /\ wpc' = "return"
            /\ UNCHANGED <<ws_sent, ws_content>>
    /\ UNCHANGED <<nconn, ws_closed, ws_query, ws_detection, ws_moment,
                   ws_strategy, ws_attempt, ws_rounds, ws_recommendations,
                   ws_result, ws_err>>
    /\ UNCHANGED <<varsL, varsC, varsR, varsU, varsA, varsT>>

\* lines 296-323: filter, the events that end the iteration, and the store
\* of valuable content
WsExtract ==
    /\ wpc = "extract"
    /\ LET sent == Append(ws_sent, StepMessage("extracting"))
       IN \E f \in FilterOutcomes(ws_content) :
            IF IsError(f)
            THEN /\ WsRaise(sent, "filter_content")
                 /\ UNCHANGED <<ws_rounds, ws_recommendations, recommendations_db>>
            ELSE /\ ws_sent' = sent \o [i \in 1..Len(finalizing_steps(f.valuable_content))
                                          |-> StepMessage(finalizing_steps(f.valuable_content)[i])]
                 /\ ws_rounds' = Append(ws_rounds, f.valuable_content)
                 /\ UNCHANGED <<ws_err, ws_closed>>
                 /\ IF f.valuable_content # <<>>
                    THEN /\ \E db_ok \in BOOLEAN :
                              recommendations_db' =
                                  _store_recommendations(
                                      recommendations_db,
                                      [query |-> ws_query, moment |-> ws_moment,
                                       recommendations |-> f.valuable_content],
                                      db_ok)
                         /\ ws_recommendations' = f.valuable_content
                         /\ wpc' = "return"
                    ELSE /\ wpc' = "record"
                         /\ UNCHANGED <<ws_recommendations, recommendations_db>>
    /\ UNCHANGED <<nconn, ws_query, ws_detection, ws_moment, ws_strategy,
                   ws_attempt, ws_content, ws_result>>
    /\ UNCHANGED <<nruns, rpc, rquery, detection, moment, strategy, attempt, content,
                   filtered, recorded, counts, rerr, rresult>>
    /\ UNCHANGED <<varsL, varsC, varsU, varsA, varsT>>

\* lines 325-344: record the failed attempt, announce and generate the
\* refined strategy, count the attempt
WsRecordAndRefine ==
    /\ wpc = "record"
    /\ LET s1 == record_attempt(ws_strategy, ws_query, <<>>, "No valuable content found")
       IN IF IsError(s1)
          THEN /\ WsRaise(ws_sent, "record_attempt")
               /\ UNCHANGED <<ws_strategy, ws_attempt>>
          ELSE LET sent == Append(ws_sent, StepMessage("strategy"))
               IN \E o \in RefinementOutcomes(s1, ws_query) :
                    LET s2 == generate_strategy_refined(
                                  s1, _analyze_previous_attempts(s1, ws_query, o))
                    IN IF IsError(s2)
                       THEN /\ WsRaise(sent, "generate_strategy")
                            /\ ws_strategy' = s1
                            /\ UNCHANGED ws_attempt
                       ELSE /\ ws_sent' = sent
                            /\ ws_strategy' = s2
                            /\ ws_attempt' = ws_attempt + 1
                            /\ wpc' = "loop"
                            /\ UNCHANGED <<ws_err, ws_closed>>
    /\ UNCHANGED <<nconn, ws_query, ws_detection, ws_moment, ws_content,
                   ws_rounds, ws_recommendations, ws_result>>
    /\ UNCHANGED <<varsL, varsC, varsR, varsU, varsA, varsT>>

\* lines 346-354: the closing event of a search without recommendations and
\* the returned payload, which reads moment.value
WsReturn ==
    /\ wpc = "return"
    /\ LET sent == IF ws_moment # None /\ ws_recommendations = <<>>
                   THEN Append(ws_sent, StepMessage("failed"))
                   ELSE ws_sent
       IN IF ws_moment = None
          THEN /\ WsRaise(sent, NoneHasNoValue)
               /\ UNCHANGED ws_result
          ELSE /\ ws_sent' = sent
               /\ ws_result' = [returned |-> TRUE, moment |-> ws_moment,
                                recommendations |-> ws_recommendations]
               /\ wpc' = "suggestions"
               /\ UNCHANGED <<ws_err, ws_closed>>
    /\ UNCHANGED <<nconn, ws_query, ws_detection, ws_moment, ws_strategy,
                   ws_attempt, ws_content, ws_rounds, ws_recommendations>>
    /\ UNCHANGED <<varsL, varsC, varsR, varsU, varsA, varsT>>

\* main.py, lines 123-143: the suggestions, the complete message, the close
WsSuggestions ==
    /\ wpc = "suggestions"
    /\ LET sent == Append(ws_sent, StepMessage("suggestions"))
       IN \E ok \in BOOLEAN :
            IF ok
            THEN /\ ws_sent' = Append(sent, CompleteMessage(ws_result))
                 /\ ws_closed' = TRUE
                 /\ wpc' = "closed"
                 /\ UNCHANGED ws_err
            ELSE WsRaise(sent, "get_personalized_suggestions")
    /\ UNCHANGED <<nconn, ws_query, ws_detection, ws_moment, ws_strategy,
                   ws_attempt, ws_content, ws_rounds, ws_recommendations, ws_result>>
    /\ UNCHANGED <<varsL, varsC, varsR, varsU, varsA, varsT>>

process_with_progress ==
    \/ WsInitial
    \/ WsAnalyzing
    \/ WsKnowledge
    \/ WsMoment
    \/ WsStrategy
    \/ WsSearch
    \/ WsExtract
    \/ WsRecordAndRefine
    \/ WsReturn

websocket_query ==
    \/ WsAccept
    \/ process_with_progress
    \/ WsSuggestions

NextStream == websocket_query

SpecStream == Init /\ [][NextStream]_vars

\* ------------------------------------------------------------------------
\* Admission of searches and page fetches: ContentDiscovery.request_semaphore
\* ------------------------------------------------------------------------
MaxTasks == 3

\* a semaphore that never blocks
never_locked(v) == FALSE

\* asyncio.Semaphore.locked: no free slot
locked(v) == v = 0

InFlight(kind) ==
    Cardinality({<<r, k>> \in SearchCalls \X (1..MaxTasks) :
                    /\ phase[r] = kind
                    /\ k \in DOMAIN task[r]
                    /\ task[r][k] = "running"})

Waiting(kind) ==
    Cardinality({<<r, k>> \in SearchCalls \X (1..MaxTasks) :
                    /\ phase[r] = kind
                    /\ k \in DOMAIN task[r]
                    /\ task[r][k] = "waiting"})

AllDone(r) == \A k \in DOMAIN task[r] : task[r][k] = "done"

\* _get_search_urls, lines 63-67: one coroutine per search query, gathered
StartSearchFanOut(r) ==
    /\ phase[r] = "idle"
    /\ \E n \in 1..MaxTasks :
        task' = [task EXCEPT ![r] = [k \in 1..n |-> "waiting"]]
    /\ phase' = [phase EXCEPT ![r] = "search"]
    /\ UNCHANGED <<backlog, request_semaphore>>
    /\ UNCHANGED <<varsL, varsC, varsR, varsU, varsS, varsT>>

\* `async with self.request_semaphore`, lines 91 and 147: a coroutine of
\* either fan-out enters when a slot is free
Acquire(r, k) ==
    /\ phase[r] \in {"search", "fetch"}
    /\ k \in DOMAIN task[r]
    /\ task[r][k] = "waiting"
    /\ ~locked(request_semaphore)
    /\ request_semaphore' = request_semaphore - 1
    /\ task' = [task EXCEPT ![r][k] = "running"]
    /\ UNCHANGED <<backlog, phase>>
    /\ UNCHANGED <<varsL, varsC, varsR, varsU, varsS, varsT>>

\* leaving the `async with` block, by return or by exception
Release(r, k) ==
    /\ phase[r] \in {"search", "fetch"}
    /\ k \in DOMAIN task[r]
    /\ task[r][k] = "running"
    /\ request_semaphore' = request_semaphore + 1
    /\ task' = [task EXCEPT ![r][k] = "done"]
    /\ UNCHANGED <<backlog, phase>>
    /\ UNCHANGED <<varsL, varsC, varsR, varsU, varsS, varsT>>

\* execute_search, lines 50-54, and _process_content, lines 112-121: after
\* the searches, the new urls are fetched in batches of max_concurrent
StartFetchFanOut(r) ==
    /\ phase[r] = "search"
    /\ AllDone(r)
    /\ \E n \in 0..MaxTasks :
        IF n = 0
        THEN /\ phase' = [phase EXCEPT ![r] = "done"]
             /\ task' = [task EXCEPT ![r] = <<>>]
             /\ UNCHANGED backlog
        ELSE /\ phase' = [phase EXCEPT ![r] = "fetch"]
             /\ task' = [task EXCEPT ![r] =
                            [k \in 1..Min(n, max_concurrent_requests) |-> "waiting"]]
             /\ backlog' = [backlog EXCEPT ![r] =
                               [urls |-> n - Min(n, max_concurrent_requests),
                                batches |-> 1]]
    /\ UNCHANGED request_semaphore
    /\ UNCHANGED <<varsL, varsC, varsR, varsU, varsS, varsT>>

\* _process_content, lines 118-127: the next batch, or the end of the call
NextBatch(r) ==
    /\ phase[r] = "fetch"
    /\ AllDone(r)
    /\ IF backlog[r].urls = 0
       THEN /\ phase' = [phase EXCEPT ![r] = "done"]
            /\ task' = [task EXCEPT ![r] = <<>>]
            /\ UNCHANGED backlog
       ELSE /\ task' = [task EXCEPT ![r] =
                           [k \in 1..Min(backlog[r].urls, max_concurrent_requests)
                               |-> "waiting"]]
            /\ backlog' = [backlog EXCEPT ![r] =
                              [urls |-> @.urls - Min(@.urls, max_concurrent_requests),
                               batches |-> @.batches + 1]]
            /\ UNCHANGED phase
    /\ UNCHANGED request_semaphore
    /\ UNCHANGED <<varsL, varsC, varsR, varsU, varsS, varsT>>

NextAdmission ==
    \E r \in SearchCalls :
        \/ StartSearchFanOut(r)
        \/ StartFetchFanOut(r)
        \/ NextBatch(r)
        \/ \E k \in 1..MaxTasks : Acquire(r, k) \/ Release(r, k)

SpecAdmission == Init /\ [][NextAdmission]_vars

\* ------------------------------------------------------------------------
\* ContentDiscovery._execute_single_search under its retry decorator
\* ------------------------------------------------------------------------
\* content_discovery.py, line 85: stop_after_attempt(3)
stop_after_attempt == 3

\* what the search API answers to the first, second and third call for a query
ApiAnswers == [1..stop_after_attempt -> CitationOutcomes]

\* one run of the decorated body, lines 90-102: every Exception is caught
\* and [] returned, so the body never raises into the decorator
SingleSearchBody(o) == [raised |-> FALSE, urls |-> _execute_single_search(o)]

\* tenacity retry, lines 84-87: the body is run again while it raises, at
\* most stop_after_attempt times; the number of runs for the answers api
RetryAttempts(api) ==
    LET returned == {k \in 1..stop_after_attempt : ~SingleSearchBody(api[k]).raised}
    IN IF returned = {} THEN stop_after_attempt
       ELSE CHOOSE k \in returned : \A j \in returned : k <= j

\* the decorated _execute_single_search: the value of the last run
retry_execute_single_search(api) ==
    LET n == RetryAttempts(api)
    IN [attempts |-> n,
        raised |-> SingleSearchBody(api[n]).raised,
        urls |-> SingleSearchBody(api[n]).urls]

ExecuteSingleSearchCall ==
    /\ rt_call = NoRtCall
    /\ \E api \in ApiAnswers :
        rt_call' = [called |-> TRUE, api |-> api,
                    out |-> retry_execute_single_search(api)]
    /\ UNCHANGED <<varsL, varsC, varsR, varsU, varsS, varsA>>

NextRetry == ExecuteSingleSearchCall

SpecRetry == Init /\ [][NextRetry]_vars

\* ------------------------------------------------------------------------
\* Properties of the query-line store
\* ------------------------------------------------------------------------
StoredIds(coll) == {coll[i].line_id : i \in 1..Len(coll)}

\* the stored document of line l (lines are never deleted, ids are unique)
SameLine(doc, l) == doc.user_id = l.user_id /\ doc.line_id = l.line_id

Stored(coll, l) == coll[CHOOSE i \in 1..Len(coll) : SameLine(coll[i], l)]

IsStored(coll, l) == \E i \in 1..Len(coll) : SameLine(coll[i], l)

\* C1: every QueryLine, as persisted and as held or returned by a request,
\* has as many timestamps as queries.
C1_QueriesTimestampsEqual ==
    /\ \A i \in 1..Len(query_lines) :
          Len(query_lines[i].queries) = Len(query_lines[i].timestamps)
    /\ \A p \in Procs : Len(line[p].queries) = Len(line[p].timestamps)

\* C2: every persisted QueryLine has len(responses) equal to len(queries) or
\* to len(queries) - 1, also after requests that failed once their query was
\* appended.
C2_ResponsesLength ==
    \A i \in 1..Len(query_lines) :
        \/ Len(query_lines[i].responses) = Len(query_lines[i].queries)
        \/ Len(query_lines[i].responses) = Len(query_lines[i].queries) - 1

\* C3: a successful get_or_update_line step with continues_line false adds
\* exactly one line (fresh line_id, queries [q], no responses) and leaves the
\* existing ones alone; with continues_line true and index i it appends q to
\* the line loaded at index i, under the same line_id, and creates no line;
\* a successful answer step adds exactly one response to that same line.
C3_Created(p) ==
    (pc[p] = "detect" /\ pc'[p] = "analyze" /\ ~line_context'[p].continues_line) =>
        /\ Len(query_lines') = Len(query_lines) + 1
        /\ SubSeq(query_lines', 1, Len(query_lines)) = query_lines
        /\ LET new == query_lines'[Len(query_lines')]
           IN /\ new.line_id \notin StoredIds(query_lines)
              /\ new.user_id = req[p].user_id
              /\ new.queries = <<req[p].query>>
              /\ new.responses = <<>>
              /\ line'[p] = new

C3_Continued(p) ==
    (pc[p] = "detect" /\ pc'[p] = "analyze" /\ line_context'[p].continues_line) =>
        LET old == PyIndex(existing_lines[p], line_context'[p].line_index)
        IN /\ Len(query_lines') = Len(query_lines)
           /\ StoredIds(query_lines') = StoredIds(query_lines)
           /\ line'[p].line_id = old.line_id
           /\ IsStored(query_lines', old)
           /\ Stored(query_lines', old).queries = Append(old.queries, req[p].query)
           /\ Stored(query_lines', old) = line'[p]

C3_Answered(p) ==
    (pc[p] = "answer" /\ pc'[p] = "done") =>
        /\ line'[p].line_id = line[p].line_id
        /\ Len(line'[p].responses) = Len(line[p].responses) + 1
        /\ line'[p].queries = line[p].queries
        /\ IsStored(query_lines', line[p])
        /\ Stored(query_lines', line[p]).responses = line'[p].responses
        /\ (~line_context[p].continues_line =>
               Len(Stored(query_lines', line[p]).responses) = 1)

C3_GetOrUpdateLine ==
    [][\A p \in Procs : C3_Created(p) /\ C3_Continued(p) /\ C3_Answered(p)]_vars

\* a request that continued a one-query line has got its answer
C3_Witness ==
    \E p \in Procs :
        /\ pc[p] = "done"
        /\ line_context[p].continues_line
        /\ Len(line[p].queries) = 2
        /\ IsStored(query_lines, line[p])
        /\ Stored(query_lines, line[p]) = line[p]

\* C4: a failed classification call makes get_or_update_line raise and leaves
\* the stored lines as they were.
C4_ClassificationFailure ==
    [][\A p \in Procs :
          (pc[p] = "detect" /\ call_log'[p] = [call |-> "detect_line", ok |-> FALSE]) =>
              /\ pc'[p] = "raised"
              /\ query_lines' = query_lines]_vars

\* a request has raised on a failed classification while lines were stored
C4_Witness ==
    \E p \in Procs :
        /\ pc[p] = "raised"
        /\ call_log[p] = [call |-> "detect_line", ok |-> FALSE]
        /\ query_lines # <<>>

\* ------------------------------------------------------------------------
\* Properties of the structured-call cache
\* ------------------------------------------------------------------------
ReadStep(c) == cpc[c] = "read" /\ cpc'[c] # "read"

\* C5 as stated: once a result r is stored for (messages, model), every later
\* read with that key returns r until the cache is cleared, and the caller
\* returns r without a live model call.
C5_ReadReturnsFirstStored ==
    [][\A c \in Callers :
          (ReadStep(c) /\ first_stored[ckey[c]] # None) =>
              /\ cached'[c] = first_stored[ckey[c]]
              /\ cpc'[c] = "returned"
              /\ cresult'[c] = first_stored[ckey[c]]
              /\ live'[c] = None]_vars

\* C5 amended: a read that does not fail returns the response most recently
\* stored for its (messages, model) since the last clear (nothing when none
\* was stored), a read that fails returns nothing, and a caller whose read
\* returned a response returns it without a live model call.
C5_ReadReturnsLastStored ==
    [][\A c \in Callers :
          ReadStep(c) =>
              /\ ~cfault'[c] => cached'[c] = stored_log[ckey[c]]
              /\ cfault'[c] => cached'[c] = None
              /\ cached'[c] # None =>
                    /\ cpc'[c] = "returned"
                    /\ cresult'[c] = cached'[c]
                    /\ live'[c] = None
              /\ cached'[c] = None => cpc'[c] = "live"]_vars

\* a caller was served from the cache what another call had stored
C5_Witness ==
    \E c \in Callers :
        /\ cpc[c] = "returned"
        /\ cached[c] # None
        /\ cached[c] = stored_log[ckey[c]]
        /\ cresult[c] = cached[c]
        /\ live[c] = None

\* C6: a cache read or write error never aborts the calling operation and
\* never changes its result: the caller ends as it would have with a working
\* cache holding no entry for the key, returning the live result (or raising
\* only when the live call itself failed).
C6_CacheFaultsHarmless ==
    \A c \in Callers :
        (cfault[c] /\ cpc[c] \in {"returned", "raised"}) =>
            IF live[c] \in Responses
            THEN cpc[c] = "returned" /\ cresult[c] = live[c]
            ELSE cpc[c] = "raised"

\* ------------------------------------------------------------------------
\* Properties of get_recommendations
\* ------------------------------------------------------------------------
Ended == rpc \in {"returned", "raised"}

\* a measure of the work a running call has left
Measure ==
    CASE rpc = "knowledge" -> 3 * max_attempts + 6
      [] rpc = "moment" -> 3 * max_attempts + 5
      [] rpc = "strategy" -> 3 * max_attempts + 4
      [] rpc = "loop" -> 3 * (max_attempts - attempt) + 3
      [] rpc = "filter" -> 3 * (max_attempts - attempt) + 2
      [] rpc = "record" -> 3 * (max_attempts - attempt) + 1
      [] OTHER -> 0

\* C7: a call invokes execute_search and filter_content at most max_attempts
\* times each, and it terminates: every step of a running call strictly
\* decreases a measure that never goes below zero.
C7_BoundedIterations ==
    /\ [](/\ counts.execute_search <= max_attempts
          /\ counts.filter_content <= max_attempts
          /\ Measure >= 0)
    /\ [][(rpc \notin {"idle", "returned", "raised"}) => Measure' < Measure]_vars

\* a call has ended after a search iteration
C7_Witness ==
    /\ Ended
    /\ counts.execute_search >= 1
    /\ counts.filter_content >= 1

\* C8: with a moment detected and no iteration finding valuable content, the
\* call returns normally without recommendations after exactly max_attempts
\* recorded attempts.
C8_ExhaustedReturnsNone ==
    (/\ Ended
     /\ moment # None
     /\ counts.filter_content >= 1
     /\ ~rresult.has_recommendations
     /\ rerr # "filter_content")
    => /\ rpc = "returned"
       /\ rresult = [moment |-> moment, has_recommendations |-> FALSE,
                     recommendations |-> <<>>]
       /\ counts.record_attempt = max_attempts
       /\ ~IsError(strategy)
       /\ Len(strategy.previous_attempts) = max_attempts

\* C9: when the detector reports no moment the call returns moment=None and
\* recommendations=None, and the strategy generator, content discovery, the
\* content filterer and the recommendation store are not invoked.
C9_NoMomentNoSearch ==
    (IF IsError(detection) THEN FALSE ELSE ~detection.is_moment)
    => /\ rpc = "returned"
       /\ rresult = [moment |-> None, has_recommendations |-> FALSE,
                     recommendations |-> <<>>]
       /\ counts = NoCounts

\* a call has returned after a detection that was not a moment
C9_Witness ==
    /\ rpc = "returned"
    /\ IF IsError(detection) THEN FALSE ELSE ~detection.is_moment

\* C10: record_attempt returns a new strategy whose previous_attempts are
\* those of S followed by A and whose other fields are those of S, and
\* leaves S as it was.
C10_RecordAttemptPure ==
    (counts.record_attempt > 0)
    => /\ ~IsError(recorded.out)
       /\ recorded.out.previous_attempts =
              Append(recorded.in.previous_attempts, recorded.attempt)
       /\ recorded.out.search_queries = recorded.in.search_queries
       /\ recorded.out.technical_depth_target = recorded.in.technical_depth_target
       /\ recorded.out.required_concepts = recorded.in.required_concepts
       /\ recorded.attempt = SearchAttempt(rquery, <<>>, "No valuable content found")

\* ------------------------------------------------------------------------
\* Properties of generate_strategy
\* ------------------------------------------------------------------------
SuccessfulQueries(attempts) ==
    LET ok == SelectSeq(attempts, LAMBDA a : a.found_valuable_content)
    IN [i \in 1..Len(ok) |-> ok[i].query]

\* C11: when the refinement model call fails while a previous strategy with
\* at least one attempt is refined, generate_strategy returns a strategy (it
\* does not raise) whose search_queries are the queries of the attempts that
\* found valuable content plus the original query if it is not among them,
\* and that list is not empty.
C11_FallbackReturnsStrategy ==
    (gs_call.path = "refine" /\ ~gs_call.refinement_ok) =>
        LET kept == SuccessfulQueries(gs_call.previous_strategy.previous_attempts)
            expected == IF gs_call.query \in Range(kept)
                        THEN kept ELSE Append(kept, gs_call.query)
        IN /\ ~IsError(gs_call.result)
           /\ gs_call.result.search_queries = expected
           /\ gs_call.result.search_queries # <<>>

\* C12: generate_strategy takes the refinement path exactly when a previous
\* strategy with at least one attempt is given, and the strategy returned on
\* that path has search_queries = keep_queries followed by new_queries, the
\* previous required_concepts and previous_attempts, and the adjusted depth
\* when one is given, the previous depth otherwise.
C12_RefinedStrategy ==
    gs_call # NoGsCall =>
        LET prev == gs_call.previous_strategy
            given == ~IsError(prev) /\ Len(prev.previous_attempts) >= 1
        IN /\ (gs_call.path = "refine") <=> given
           /\ gs_call.path = "refine" =>
                /\ ~IsError(gs_call.result)
                /\ gs_call.result.search_queries =
                      gs_call.refinement.keep_queries \o gs_call.refinement.new_queries
                /\ gs_call.result.required_concepts = prev.required_concepts
                /\ gs_call.result.previous_attempts = prev.previous_attempts
                /\ gs_call.result.technical_depth_target =
                      IF gs_call.refinement.adjusted_depth # None
                      THEN gs_call.refinement.adjusted_depth
                      ELSE prev.technical_depth_target

\* ------------------------------------------------------------------------
\* Properties of filter_content
\* ------------------------------------------------------------------------
\* how often x occurs in the sequence s
Occurrences(s, x) == Cardinality({i \in 1..Len(s) : s[i] = x})

\* C13: a FilteredContent returned by filter_content has attempted_content of
\* length len(candidates), holding the content_id of every candidate in input
\* order, and every candidate was evaluated exactly once (no early
\* termination, however many are valuable).
C13_AllCandidatesAttempted ==
    fc_pc = "returned" =>
        /\ Len(fc_result.attempted_content) = Len(fc_candidates)
        /\ fc_result.attempted_content = fc_candidates
        /\ Len(fc_evals) = Len(fc_candidates)
        /\ \A i \in 1..Len(fc_candidates) : fc_evals[i].content_id = fc_candidates[i]

C13_Witness ==
    /\ fc_pc = "returned"
    /\ Len(fc_candidates) = MaxCandidates
    /\ Len(fc_result.valuable_content) >= 2
    /\ fc_result.attempted_content = fc_candidates

\* C14: valuable_content of the result holds exactly the candidates whose
\* evaluation was valuable, one entry each, ordered by value_score descending.
C14_ValuableSortedDesc ==
    fc_pc = "returned" =>
        LET vc == fc_result.valuable_content
            want == SelectSeq(fc_evals, LAMBDA e : e.is_valuable)
            entry(e) == [content_id |-> e.content_id, value_score |-> e.value_score]
        IN /\ Len(vc) = Len(want)
           /\ \A i \in 1..Len(want) :
                 Occurrences(vc, entry(want[i])) =
                 Cardinality({j \in 1..Len(want) : entry(want[j]) = entry(want[i])})
           /\ \A i, j \in 1..Len(vc) : i < j => vc[i].value_score >= vc[j].value_score

\* two valuable candidates evaluated in ascending order of score come back
\* in descending order
C14_Witness ==
    /\ fc_pc = "returned"
    /\ Len(fc_result.valuable_content) = 2
    /\ Len(fc_evals) = 3
    /\ \E i, j \in 1..3 :
          /\ i < j
          /\ fc_evals[i].is_valuable /\ fc_evals[j].is_valuable
          /\ fc_evals[i].value_score = 6 /\ fc_evals[j].value_score = 9
    /\ fc_result.valuable_content[1].value_score = 9
    /\ fc_result.valuable_content[2].value_score = 6

C17_CachedAndNewContent ==
    [][(dpc # "returned" /\ dpc' = "returned" /\ discovered_urls' # {}) =>
         LET U == discovered_urls'
             cachedU == {u \in U : processed_content[u] # NoDocument}
             was_cached == {processed_content[u] : u \in cachedU}
             extracted == {ProcessedContent(fetch_log'[i].url, nsearches) :
                             i \in {j \in 1..Len(fetch_log') :
                                       fetch_log'[j].outcome = "ok"}}
         IN /\ Range(dresult') = was_cached \cup extracted
            /\ Len(dresult') = Cardinality(UrlsOf(dresult'))
            /\ UrlsOf(fetch_log') \cap cachedU = {}
            /\ \A c \in extracted : processed_content'[c.url] = c
      ]_vars

\* ------------------------------------------------------------------------
\* Properties of get_related_lines
\* ------------------------------------------------------------------------
\* C18: get_related_lines never raises and its result always contains
\* current_line: with at most one line in all_lines it returns [current_line]
\* without calling the model; when the model call, the cache or the returned
\* indices (an out-of-range index) cause an error it returns [current_line];
\* otherwise it returns the lines selected by the model, plus current_line if
\* the model did not select it.
C18_RelatedLines ==
    gr_call.called =>
        LET all_lines == gr_call.all_lines
            current_line == gr_call.current_line
            o == gr_call.outcome
            failed == \/ ~o.cached /\ (~o.ok \/ ~o.store_ok)
                      \/ \E k \in 1..Len(o.indices) :
                            \/ o.indices[k] >= Len(all_lines)
                            \/ o.indices[k] < 0 - Len(all_lines)
            selected == [k \in 1..Len(o.indices) |->
                            IF o.indices[k] >= 0
                            THEN all_lines[o.indices[k] + 1]
                            ELSE all_lines[Len(all_lines) + o.indices[k] + 1]]
        IN /\ current_line \in Range(gr_call.result)
           /\ Len(all_lines) <= 1 =>
                 gr_call.result = <<current_line>> /\ ~gr_call.model_called
           /\ (Len(all_lines) > 1 /\ failed) => gr_call.result = <<current_line>>
           /\ (Len(all_lines) > 1 /\ ~failed) =>
                 gr_call.result = IF current_line \in Range(selected)
                                  THEN selected
                                  ELSE Append(selected, current_line)

\* the model selected lines other than the current one
C18_Witness ==
    /\ gr_call.called
    /\ Len(gr_call.all_lines) = MaxLines
    /\ gr_call.outcome.ok /\ gr_call.outcome.store_ok
    /\ Len(gr_call.outcome.indices) = 2
    /\ Len(gr_call.result) = 3
    /\ gr_call.result[3] = gr_call.current_line

\* ------------------------------------------------------------------------
\* Properties of analyze_knowledge
\* ------------------------------------------------------------------------
\* the primary call succeeded and the concept extraction from the latest
\* response was made and failed
ExtractionFailed ==
    /\ ka_call.called
    /\ ka_call.primary.cached \/ (ka_call.primary.ok /\ ka_call.primary.store_ok)
    /\ ka_call.current_line.responses # <<>>
    /\ ~ka_call.extraction.cached
    /\ ~ka_call.extraction.ok \/ ~ka_call.extraction.store_ok

\* C19 as stated: when the primary knowledge-state call succeeds but the
\* concept extraction from the latest response fails, analyze_knowledge
\* returns normally and current_topic.latest_response_concepts is left as
\* returned by the primary analysis.
C19_ConceptsLeftAsReturned ==
    ExtractionFailed =>
        /\ ~ka_call.raised
        /\ ka_call.latest_response_concepts = ka_call.primary.latest_response_concepts

\* C19 as amended: when the primary knowledge-state call succeeds but the
\* concept extraction from the latest response fails, analyze_knowledge
\* returns normally and current_topic.latest_response_concepts is the empty
\* list, whatever the primary analysis returned.
C19_ConceptsEmptied ==
    ExtractionFailed =>
        /\ ~ka_call.raised
        /\ ka_call.latest_response_concepts = <<>>

\* the extraction failed after a primary analysis that did return concepts
C19_Witness ==
    /\ ExtractionFailed
    /\ ka_call.primary.latest_response_concepts # <<>>
    /\ ka_call.latest_response_concepts = <<>>

\* ------------------------------------------------------------------------
\* Properties of the recommendation records
\* ------------------------------------------------------------------------
\* C20: a get_recommendations call that finds valuable content inserts
\* exactly one recommendation record, a call that finds none inserts no
\* record; existing records are never updated or deleted; if the insert
\* fails the error is not re-raised and the caller still receives the
\* recommendations.
C20_AuditRecords ==
    [][LET found == rpc = "filter" /\ rpc' # "raised" /\ filtered' # <<>>
           doc == [query |-> rquery, moment |-> moment, recommendations |-> filtered']
       IN /\ found =>
               /\ rpc' = "returned"
               /\ rresult'.has_recommendations
               /\ rresult'.recommendations = filtered'
               /\ counts'.store = 1
               /\ \/ recommendations_db' = Append(recommendations_db, doc)
                  \/ recommendations_db' = recommendations_db
          /\ ~found => recommendations_db' = recommendations_db
          /\ Len(recommendations_db') >= Len(recommendations_db)
          /\ SubSeq(recommendations_db', 1, Len(recommendations_db)) = recommendations_db
      ]_vars

\* a first call stored its recommendations, the insert of a second call
\* failed and that call returned its recommendations all the same
C20_Witness ==
    /\ nruns = 2
    /\ rpc = "returned"
    /\ rresult.has_recommendations
    /\ rresult.recommendations # <<>>
    /\ counts.store = 1
    /\ Len(recommendations_db) = 1
    /\ recommendations_db[1].recommendations # rresult.recommendations

\* ------------------------------------------------------------------------
\* Properties of the streaming endpoint
\* ------------------------------------------------------------------------
IsProgress(m) == "step" \in DOMAIN m /\ m.step \in ProcessStep

IsTerminal(m) == "type" \in DOMAIN m /\ m.type \in {"complete", "error"}

\* the ProcessStep values sent so far, in order
ProgressSteps ==
    LET e == SelectSeq(ws_sent, IsProgress)
    IN [i \in 1..Len(e) |-> e[i].step]

NoMomentDetected == ~IsError(ws_detection) /\ detect_moment(ws_detection) = None

\* C21: a streaming request for which no learning moment is detected ends
\* with the normal payload of process_with_progress (moment null, no
\* recommendations), not with an error.
C21_NoMomentNormalPayload ==
    (wpc = "closed" /\ NoMomentDetected) =>
        /\ ws_result = [returned |-> TRUE, moment |-> None, recommendations |-> <<>>]
        /\ ws_err # NoneHasNoValue

\* C22: the progress events follow the orchestrator state machine: initial,
\* analyzing, knowledge, moment once each and in that order; strategy only
\* after moment and only for a detected moment; at most max_attempts rounds
\* of searching, extracting, finalizing in that order; every searching has a
\* strategy event since the previous searching; failed only after a round
\* that found no valuable content.
C22_EventOrder ==
    LET e == ProgressSteps
        n == Len(e)
        opening == <<"initial", "analyzing", "knowledge", "moment">>
        Count(step, k) == Cardinality({i \in 1..k : e[i] = step})
    IN /\ \A i \in 1..Min(n, 4) : e[i] = opening[i]
       /\ \A i \in 5..n : e[i] \notin Range(opening)
       /\ \A i \in 1..n : e[i] = "strategy" =>
            i > 4 /\ ~IsError(ws_detection) /\ ws_detection.is_moment
       /\ Count("searching", n) <= max_attempts
       /\ \A i \in 1..n : e[i] = "searching" =>
            /\ \E j \in 1..(i - 1) :
                 /\ e[j] = "strategy"
                 /\ \A k \in (j + 1)..(i - 1) : e[k] # "searching"
            /\ i < n => e[i + 1] = "extracting"
       /\ \A i \in 1..n : e[i] = "extracting" =>
            /\ i > 1 /\ e[i - 1] = "searching"
            /\ i < n => e[i + 1] = "finalizing"
       /\ \A i \in 1..n : e[i] = "finalizing" => i > 1 /\ e[i - 1] = "extracting"
       /\ \A i \in 1..n : e[i] = "failed" =>
            LET r == Count("finalizing", i)
            IN r >= 1 /\ r <= Len(ws_rounds) /\ ws_rounds[r] = <<>>

\* a connection whose one search round found nothing valuable
C22_Witness ==
    /\ ws_closed
    /\ ProgressSteps = <<"initial", "analyzing", "knowledge", "moment", "strategy",
                         "searching", "extracting", "finalizing", "failed">>
    /\ ws_rounds = <<<<>>>>

\* C23: whatever a pipeline stage raises, the client of an accepted
\* connection receives exactly one terminal message (complete, or error with
\* the message of the exception) as the last message, and the connection is
\* closed with it; it is never closed without a terminal message.
C23_OneTerminalMessage ==
    /\ \A i \in 1..Len(ws_sent) :
            IsTerminal(ws_sent[i]) => i = Len(ws_sent) /\ ws_closed
    /\ ws_closed =>
            /\ ws_sent # <<>>
            /\ IsTerminal(ws_sent[Len(ws_sent)])
            /\ IF ws_err = None
               THEN ws_sent[Len(ws_sent)] = CompleteMessage(ws_result)
               ELSE ws_sent[Len(ws_sent)] = ErrorMessage(ws_err)

\* the filter raised in the middle of a search round: the last message is
\* the error, after the progress events
C23_Witness ==
    /\ ws_closed
    /\ ws_err = "filter_content"
    /\ Len(ws_sent) = 8
    /\ ws_sent[8] = ErrorMessage("filter_content")
    /\ ws_sent[7] = StepMessage("extracting")

\* ------------------------------------------------------------------------
\* Properties of the admission semaphore
\* ------------------------------------------------------------------------
\* C24 as claimed: searches and fetches are admitted by two independent
\* limits, so a search that finds no free slot waits for searches only, and
\* a fetch for fetches only.
C24_IndependentLimits ==
    /\ InFlight("search") <= max_concurrent_requests
    /\ InFlight("fetch") <= max_concurrent_requests
    /\ (Waiting("search") > 0 /\ locked(request_semaphore)) =>
            InFlight("search") = max_concurrent_requests
    /\ (Waiting("fetch") > 0 /\ locked(request_semaphore)) =>
            InFlight("fetch") = max_concurrent_requests

\* C24, amended: searches and fetches are admitted by one shared limit: the
\* in-flight searches and page fetches together never exceed
\* max_concurrent_requests, and the free slots are what the two leave.
C24_SharedLimit ==
    /\ InFlight("search") + InFlight("fetch") <= max_concurrent_requests
    /\ request_semaphore = max_concurrent_requests - InFlight("search") - InFlight("fetch")

\* the fetches of one call hold every slot while a search of another call
\* waits
C24_Witness ==
    /\ InFlight("fetch") = max_concurrent_requests
    /\ InFlight("search") = 0
    /\ Waiting("search") > 0
    /\ locked(request_semaphore)

\* ------------------------------------------------------------------------
\* Properties of the search retry
\* ------------------------------------------------------------------------
\* C28: a search query whose API call fails is attempted again, up to 3
\* attempts in total, before it yields zero URLs: the result is that of the
\* first successful attempt among the three, and empty only when all three
\* failed.
C28_FailedSearchRetried ==
    rt_call.called =>
        LET succeeded == {k \in 1..stop_after_attempt : rt_call.api[k].ok}
            first == CHOOSE k \in succeeded : \A j \in succeeded : k <= j
        IN IF succeeded = {}
           THEN rt_call.out.attempts = stop_after_attempt /\ rt_call.out.urls = {}
           ELSE /\ rt_call.out.attempts = first
                /\ rt_call.out.urls = _execute_single_search(rt_call.api[first])

\* ------------------------------------------------------------------------
\* Further properties of the query-line store
\* ------------------------------------------------------------------------
\* C26: an update or a rename replaces only the stored record with the
\* (user_id, line_id) of the given line: every other stored line, also one
\* of the same user with the same line_topic, stays as it is, no record
\* changes its identity, and a rename keeps the line_id.
C26_UpdateKeyedByIdentity ==
    [][/\ Len(query_lines') >= Len(query_lines)
       /\ \A i \in 1..Len(query_lines) :
            /\ SameLine(query_lines'[i], query_lines[i])
            /\ query_lines'[i] # query_lines[i] =>
                 \E p \in Procs :
                    /\ pc'[p] # pc[p]
                    /\ SameLine(query_lines[i], line'[p])
                    /\ query_lines'[i] = line'[p]
       /\ \A p \in Procs :
            (pc[p] \in {"analyze", "answer"} /\ pc'[p] \in {"answer", "done"}) =>
                /\ line'[p].line_id = line[p].line_id
                /\ line'[p].user_id = line[p].user_id
      ]_vars

\* two lines of one user with the same topic: one was created before the
\* other got its answer stored, and is still as it was created
C26_Witness ==
    \E i, j \in 1..Len(query_lines) :
        /\ i # j
        /\ query_lines[i].user_id = query_lines[j].user_id
        /\ query_lines[i].line_topic = query_lines[j].line_topic
        /\ Len(query_lines[i].responses) = 1
        /\ query_lines[j].responses = <<>>
        /\ query_lines[j].timestamps[1] < query_lines[i].last_updated
        /\ i > j

\* C27: the line updates of concurrent requests are not serialized: every
\* write stores the private copy of the writing request, built from the
\* lines that request loaded, whatever other requests stored since, and a
\* create adds a line whatever was created since.
C27_WritesNotSerialized ==
    [][\A p \in Procs :
          /\ (pc[p] = "detect" /\ pc'[p] = "analyze") =>
                /\ IsStored(query_lines', line'[p])
                /\ Stored(query_lines', line'[p]) = line'[p]
                /\ IF line_context'[p].continues_line
                   THEN line'[p].queries =
                            Append(PyIndex(existing_lines[p],
                                           line_context'[p].line_index).queries,
                                   req[p].query)
                   ELSE Len(query_lines') = Len(query_lines) + 1
          /\ (pc[p] = "analyze" /\ pc'[p] = "answer" /\ line'[p] # line[p]) =>
                Stored(query_lines', line'[p]) = line'[p]
          /\ (pc[p] = "answer" /\ pc'[p] = "done") =>
                Stored(query_lines', line'[p]) = line'[p]
      ]_vars

\* both requests of u1 loaded the stored line, both appended their query to
\* it and both finished: the persisted line holds one of the two queries only
C27_Witness ==
    /\ \A p \in Procs :
          /\ pc[p] = "done"
          /\ line_context[p].continues_line
          /\ existing_lines[p] = <<StoredLine>>
          /\ SameLine(line[p], StoredLine)
    /\ Len(query_lines) = 1
    /\ Len(query_lines[1].queries) = 2
    /\ req["p1"].query # req["p2"].query

\* C29: in every persisted line, responses[i] is the answer obtained for
\* queries[i], also after requests that failed once their query was appended.
C29_AnswersAligned ==
    \A i \in 1..Len(query_lines) :
        \A k \in 1..Len(query_lines[i].responses) :
            /\ k <= Len(query_lines[i].queries)
            /\ query_lines[i].responses[k] = Answer(query_lines[i].queries[k])

\* the lines that differ between two states of the store
ChangedIds(old, new) ==
    {old[j].line_id : j \in {k \in 1..Len(old) : k > Len(new) \/ new[k] # old[k]}}

C30_Step(p) == pc[p] = "detect" /\ pc'[p] # "detect" /\ line_context'[p].continues_line

C30_Raised(p) == pc'[p] = "raised" /\ query_lines' = query_lines

C30_AppendedAt(p, pos) ==
    /\ pc'[p] = "analyze"
    /\ Len(query_lines') = Len(query_lines)
    /\ line'[p].line_id = existing_lines[p][pos].line_id
    /\ line'[p].queries = Append(existing_lines[p][pos].queries, req[p].query)
    /\ ChangedIds(query_lines, query_lines') = {existing_lines[p][pos].line_id}

\* C30 as claimed: with continues_line true and a line_index that is
\* negative or not below the number of loaded lines the call raises and no
\* stored line is created or modified; otherwise the query goes to the line
\* at position line_index.
C30_InvalidIndexRaises ==
    [][\A p \in Procs :
          C30_Step(p) =>
              LET n == Len(existing_lines[p])
                  i == line_context'[p].line_index
              IN IF i < 0 \/ i >= n
                 THEN C30_Raised(p)
                 ELSE C30_AppendedAt(p, i + 1)
      ]_vars

\* C30, amended: the call raises, and nothing is stored, for a line_index
\* below minus the number n of loaded lines or not below n; a line_index
\* from -n to -1 is accepted and the query goes to the loaded line at
\* position n + line_index; otherwise it goes to the line at line_index.
C30_IndexOutOfRangeRaises ==
    [][\A p \in Procs :
          C30_Step(p) =>
              LET n == Len(existing_lines[p])
                  i == line_context'[p].line_index
              IN IF i < -n \/ i >= n
                 THEN C30_Raised(p)
                 ELSE IF i < 0
                 THEN C30_AppendedAt(p, n + i + 1)
                 ELSE C30_AppendedAt(p, i + 1)
      ]_vars

\* a request that loaded two lines has raised on line_index 2, and the store
\* still holds the two lines as loaded
C30_Witness ==
    \E p \in Procs :
        /\ pc[p] = "raised"
        /\ line_context[p] = [continues_line |-> TRUE, line_index |-> 2]
        /\ Len(existing_lines[p]) = 2
        /\ Len(query_lines) = 2
        /\ \A j \in 1..2 : query_lines[j] \in Range(existing_lines[p])

\* the other interleaving of C27: both requests of u1 loaded the same single
\* line, neither continued it, and each created a line of its own
C27_BothCreated ==
    /\ \A p \in Procs :
          /\ pc[p] = "done"
          /\ req[p].user_id = "u1"
          /\ existing_lines[p] = <<StoredLine>>
          /\ ~line_context[p].continues_line
    /\ Len(query_lines) = 3

====
